---- MODULE Spec2Model ----
(***************************************************************************)
(* adbctl: device enumeration, selection and command execution.            *)
(*                                                                         *)
(* The repository holds three programs built from near-identical code:     *)
(*   "main"   src/main.go            (listing without -l, menu)            *)
(*   "adbctl" src/adbctl.go          (listing with -l, whole lines kept)   *)
(*   "probe"  src/unnamed/part_000   (probes the device, then reports)     *)
(* Text is a sequence of one-character strings.                            *)
(***************************************************************************)
EXTENDS Integers, Sequences, FiniteSets, TLC

\* ------------------------------------------------------------------ bounds
\* device lines after the header in a listing
MaxLines == 3
\* console lines in a free input script
MaxInput == 2
\* prompts selectDevice may print before the model stops counting
MaxPrompts == 5
\* characters a child process writes before it exits or is killed
MaxWrites == 2
\* console lines in an input script of a whole run
MaxMenu == 2
\* calls of one run the environment lets end abnormally
MaxFaults == 1

\* ------------------------------------------------------------ text helpers
NL == "\n"
\* unicode.IsSpace, restricted to the characters the model uses
WS == {" ", "\t", "\r", "\n"}
Offline == <<"o", "f", "f", "l", "i", "n", "e">>

RECURSIVE SplitAcc(_, _, _)
SplitAcc(s, cur, acc) ==
    IF s = <<>> THEN Append(acc, cur)
    ELSE IF Head(s) = NL THEN SplitAcc(Tail(s), <<>>, Append(acc, cur))
    ELSE SplitAcc(Tail(s), Append(cur, Head(s)), acc)

\* strings.Split(s, "\n"): always at least one element
Split(s) == SplitAcc(s, <<>>, <<>>)

RECURSIVE TrimLeft(_)
TrimLeft(s) == IF s # <<>> /\ Head(s) \in WS THEN TrimLeft(Tail(s)) ELSE s

RECURSIVE TrimRight(_)
TrimRight(s) ==
    IF s # <<>> /\ s[Len(s)] \in WS THEN TrimRight(SubSeq(s, 1, Len(s) - 1)) ELSE s

\* strings.TrimSpace
TrimSpace(s) == TrimRight(TrimLeft(s))

\* strings.HasSuffix
HasSuffix(s, suf) ==
    /\ Len(s) >= Len(suf)
    /\ SubSeq(s, Len(s) - Len(suf) + 1, Len(s)) = suf

\* strings.HasPrefix
HasPrefix(s, pre) == Len(s) >= Len(pre) /\ SubSeq(s, 1, Len(pre)) = pre

RECURSIVE FieldsAcc(_, _, _)
FieldsAcc(s, cur, acc) ==
    IF s = <<>> THEN (IF cur = <<>> THEN acc ELSE Append(acc, cur))
    ELSE IF Head(s) \in WS
         THEN FieldsAcc(Tail(s), <<>>, IF cur = <<>> THEN acc ELSE Append(acc, cur))
         ELSE FieldsAcc(Tail(s), Append(cur, Head(s)), acc)

\* strings.Fields: the maximal runs of non-space characters
Fields(s) == FieldsAcc(s, <<>>, <<>>)

\* ---------------------------------------------------------------- inputs
RECURSIVE JoinLines(_)
JoinLines(ls) ==
    IF ls = <<>> THEN <<>>
    ELSE IF Len(ls) = 1 THEN ls[1]
    ELSE ls[1] \o <<NL>> \o JoinLines(Tail(ls))

Header == <<"L", "i", "s", "t">>

\* the lines `adb devices` may print after its header
ListingLines ==
    { <<"A", "\t", "d">>,
      <<"B", " ", "d", " ", "u">>,
      <<" ", "C", "\t", "d">>,
      <<"D", "\t">> \o Offline,
      <<"E", " ">> \o Offline \o <<"\r">>,
      Offline,
      <<>>,
      <<" ">> }

\* the k-th smallest element of a set of numbers
Nth(S, k) == CHOOSE p \in S : Cardinality({q \in S : q < p}) = k - 1

\* positions of the newlines of a text
NLPos(t) == {p \in 1..Len(t) : t[p] = NL}

NumLines(t) == Cardinality(NLPos(t)) + 1

\* the k-th line of a text: what stands between two consecutive newlines
LineAt(t, k) ==
    LET from == IF k = 1 THEN 1 ELSE Nth(NLPos(t), k - 1) + 1
        to   == IF k = NumLines(t) THEN Len(t) ELSE Nth(NLPos(t), k) - 1
    IN  SubSeq(t, from, to)

\* the orders in which the elements of a set can stand
Orders(S) ==
    {f \in [1..Cardinality(S) -> S] :
        \A i, j \in 1..Cardinality(S) : f[i] = f[j] => i = j}

SeqsUpTo(S, n) == UNION {[1..k -> S] : k \in 0..n}

\* what the listing command can print: nothing at all, or a header and lines
Texts ==
    {<<>>} \cup {JoinLines(<<Header>> \o ls) : ls \in SeqsUpTo(ListingLines, MaxLines)}

\* the programs that list and select devices
Variants == {"main", "adbctl", "probe"}
\* and the early program at the end of part_000, which does neither
Programs == Variants \cup {"v1"}

\* ----------------------------------------------------------------- state
VARIABLES
    variant,    \* which of the three programs runs
    pc,         \* position of the single thread of control
    adbOut,     \* environment: the text the listing command prints
    lines,      \* getConnectedDevices: lines
    li,         \* getConnectedDevices: index of the next line of lines[1:]
    devices,    \* getConnectedDevices: devices; then selectDevice's argument
    stdin,      \* environment: the console lines not yet read
    consumed,   \* the console lines read so far, in order
    input,      \* selectDevice: input, after strings.TrimSpace
    prompts,    \* number of selection prompts printed
    errs,       \* number of "Invalid selection" messages printed
    selected,   \* the identifier selectDevice returned
    exitCode,   \* os.Exit status, -1 while the program runs
    call,       \* the Command Runner call in progress: function, kind, device
    rpc,        \* position inside that call
    child,      \* the child process: none, running, exited, killed
    status,     \* exit status of the child
    outbuf,     \* what the child has written: <<descriptor, character>>
    ctxErr,     \* ctx.Err() of the call's context
    timer,      \* the timer of context.WithTimeout
    werr,       \* the error cmd.Output / CombinedOutput / Run returned
    captured,   \* the output they returned
    result,     \* the value the call returned
    spawned,    \* child processes the call in progress has started
    memoryFlag, \* main: *memoryFlag
    issued,     \* the bridge commands issued so far: kind, device, command
    qi,         \* getDeviceInfo: number of the next query
    probeErr,   \* main of part_000: err of checkDeviceConnectivity
    rbuf,       \* the lines the current bufio.Reader holds and has not returned
    faults,     \* environment: calls of this run that ended abnormally so far
    info,       \* getDeviceInfo: info, the entries built so far
    held,       \* getDeviceInfo: a result waiting for the second query of its entry
    usedKB,     \* the memory parsers: usedKB / usedMem of the last parse
    shown       \* the lines formatOutput wrote last

listVars == <<lines, li, devices>>
selVars == <<stdin, consumed, input, prompts, errs, selected, rbuf>>
runVars == <<call, rpc, child, status, outbuf, ctxErr, timer, werr, captured,
             result, spawned, faults>>
repVars == <<info, held, usedKB, shown>>
mainVars == <<memoryFlag, issued, qi, probeErr, repVars>>
vars == <<variant, pc, adbOut, lines, li, devices, stdin, consumed, input,
          prompts, errs, selected, exitCode, call, rpc, child, status, outbuf,
          ctxErr, timer, werr, captured, result, spawned, memoryFlag, issued, qi,
          probeErr, rbuf, faults, info, held, usedKB, shown>>

\* ---------------------------------------------------------- Command Runner
NA == <<"n", "/", "a">>
TimedOut == <<"E", "r", "r", "o", "r", ":", " ", "C", "o", "m", "m", "a", "n", "d", " ", "t", "i", "m", "e", "d", " ", "o", "u", "t">>
ErrorPrefix == <<"E", "r", "r", "o", "r", ":", " ">>
ConnTimedOut == <<"d", "e", "v", "i", "c", "e", " ", "c", "o", "n", "n", "e", "c", "t", "i", "o", "n", " ", "t", "i", "m", "e", "d", " ", "o", "u", "t">>
ConnFailed == <<"f", "a", "i", "l", "e", "d", " ", "t", "o", " ", "c", "o", "n", "n", "e", "c", "t", " ", "t", "o", " ", "d", "e", "v", "i", "c", "e">>

\* the value of a variable of main that has not been assigned
Unset == <<"?">>

NoCall == [fn |-> "none", kind |-> "none", dev |-> <<>>]

RunnerIdle ==
    /\ call = NoCall
    /\ rpc = "idle"
    /\ child = "none"
    /\ status = 0
    /\ outbuf = <<>>
    /\ ctxErr = "nil"
    /\ timer = "none"
    /\ werr = "nil"
    /\ captured = <<>>
    /\ result = <<>>
    /\ spawned = 0

\* no report has been built, parsed or printed
ReportIdle ==
    /\ info = <<>>
    /\ held = <<>>
    /\ usedKB = <<>>
    /\ shown = <<>>

\* the functions that run the bridge tool under context.WithTimeout
WithContext == {"runAdbCommand", "runAdbCommandWithTimeout", "checkDeviceConnectivity"}

\* the Command Runner of each program; the last is the early program at the
\* end of part_000, which has no timeout
CommandRunners == {"runAdbCommand", "runAdbCommandWithTimeout", "runAdbCommandV1"}

RECURSIVE Bytes(_, _)
\* the characters of outbuf written to the descriptors fds, in order
Bytes(buf, fds) ==
    IF buf = <<>> THEN <<>>
    ELSE (IF buf[1][1] \in fds THEN <<buf[1][2]>> ELSE <<>>) \o Bytes(Tail(buf), fds)

\* cmd.CombinedOutput() collects both descriptors, cmd.Output() the first,
\* cmd.Run() nothing
capture(fn, buf) ==
    IF fn = "runAdbCommand" THEN Bytes(buf, {1, 2})
    ELSE IF fn \in {"runAdbCommandWithTimeout", "runAdbCommandV1"} THEN Bytes(buf, {1})
    ELSE <<>>

\* err.Error() as far as the model tells errors apart
ErrorText(e) == <<e>>

\* src/main.go:34-45, src/adbctl.go:37-48
runAdbCommand(e, cerr, out) ==
    IF e # "nil" THEN NA ELSE TrimSpace(out)

\* src/unnamed/part_000:19-43
runAdbCommandWithTimeout(e, cerr, out) ==
    IF e # "nil"
    THEN (IF cerr = "DeadlineExceeded" THEN TimedOut ELSE NA)
    ELSE (IF TrimSpace(out) = <<>> THEN NA ELSE TrimSpace(out))

\* src/unnamed/part_000:235-242
runAdbCommandV1(e, cerr, out) ==
    IF e # "nil" THEN ErrorPrefix \o ErrorText(e) ELSE TrimSpace(out)

\* checkDeviceConnectivity: <<>> stands for the nil error
checkDeviceConnectivity(e, cerr, out) ==
    IF e # "nil"
    THEN (IF cerr = "DeadlineExceeded" THEN ConnTimedOut ELSE ConnFailed)
    ELSE <<>>

returnValue(fn, e, cerr, out) ==
    CASE fn = "runAdbCommand" -> runAdbCommand(e, cerr, out)
      [] fn = "runAdbCommandWithTimeout" -> runAdbCommandWithTimeout(e, cerr, out)
      [] fn = "runAdbCommandV1" -> runAdbCommandV1(e, cerr, out)
      [] fn = "checkDeviceConnectivity" -> checkDeviceConnectivity(e, cerr, out)
      [] OTHER -> out

\* `cat /proc/meminfo`: a well-formed report, and one cut short after its
\* first key
MemGood ==
    <<"M", "e", "m", "T", "o", "t", "a", "l", ":", " ", "2", "0", "9", "7", "1", "5", "2", " ", "k", "B", "\n", "M", "e", "m", "F", "r", "e", "e", ":", " ", "5", "2", "4", "2", "8", "8", " ", "k", "B", "\n", "M", "e", "m", "A", "v", "a", "i", "l", "a", "b", "l", "e", ":", " ", "1", "0", "4", "8", "5", "7", "6", " ", "k", "B">>
MemShort == <<"M", "e", "m", "T", "o", "t", "a", "l", ":">>

\* getprop ro.product.manufacturer on a Fire OS device
AmazonAnswer == <<"A", "m", "a", "z", "o", "n">>

\* what a child may write in one write, by the kind of command
ChildChunks(kind) ==
    CASE kind = "generic" -> {<<"v">>, <<" ">>, <<NL>>}
      [] kind = "meminfo" -> {MemGood, MemShort}
      [] kind = "manufacturer" -> {<<"v">>, AmazonAnswer}
      [] OTHER -> {<<"v">>}
ChildFds(kind) == IF kind = "generic" THEN {1, 2} ELSE {1}

\* what the child of the call in progress may write: ro.product.manufacturer
\* is a read-only property, so the second query of getDeviceInfo in part_000
\* is answered as the first one was
DeviceChunks ==
    LET said == {info[i].Value : i \in {j \in 1..Len(info) :
                                            info[j].Property = "Manufacturer"}}
                    \cap ChildChunks("manufacturer")
    IN  IF call.kind = "manufacturer" /\ said # {}
        THEN said
        ELSE ChildChunks(call.kind)

\* the call in progress has already met an abnormal event
Faulty ==
    \/ werr = "start"
    \/ timer = "fired"
    \/ child = "killed"
    \/ (child = "exited" /\ (status # 0 \/ outbuf = <<>>))
    \/ [p \in 1..Len(outbuf) |-> outbuf[p][2]] = MemShort

\* the environment may let the call in progress go wrong
MayFail == Faulty \/ faults < MaxFaults

\* context.WithTimeout, exec.CommandContext and the start of the child: the
\* bridge binary is missing, or a child runs
StartCall(fn, kind, dev) ==
    /\ rpc = "idle"
    /\ call' = [fn |-> fn, kind |-> kind, dev |-> dev]
    /\ timer' = IF fn \in WithContext THEN "armed" ELSE "none"
    /\ ctxErr' = "nil"
    /\ \/ /\ faults < MaxFaults
          /\ werr' = "start"
          /\ child' = "none"
          /\ rpc' = "waited"
          /\ spawned' = 0
          /\ faults' = faults + 1
       \/ /\ werr' = "nil"
          /\ child' = "running"
          /\ rpc' = "wait"
          /\ spawned' = 1
          /\ faults' = faults
    /\ status' = 0
    /\ outbuf' = <<>>
    /\ captured' = <<>>
    /\ result' = <<>>

\* the child writes to one of its descriptors
ChildWrite ==
    /\ child = "running"
    /\ Len(outbuf) < (IF call.kind = "generic" THEN MaxWrites ELSE 1)
    /\ \E fd \in ChildFds(call.kind), c \in DeviceChunks :
          /\ c = MemShort => MayFail
          /\ outbuf' = outbuf \o [p \in 1..Len(c) |-> <<fd, c[p]>>]
          /\ faults' = IF c = MemShort /\ ~Faulty THEN faults + 1 ELSE faults
    /\ UNCHANGED <<variant, pc, adbOut, listVars, selVars, mainVars, exitCode, call, rpc, child,
                   status, ctxErr, timer, werr, captured, result, spawned>>

\* the child exits by itself
ChildExit ==
    /\ child = "running"
    /\ child' = "exited"
    /\ \E st \in {0, 1} :
          /\ (st # 0 \/ outbuf = <<>>) => MayFail
          /\ status' = st
          /\ faults' = IF (st # 0 \/ outbuf = <<>>) /\ ~Faulty THEN faults + 1 ELSE faults
    /\ UNCHANGED <<variant, pc, adbOut, listVars, selVars, mainVars, exitCode, call, rpc, outbuf,
                   ctxErr, timer, werr, captured, result, spawned>>

\* the deadline elapses: the context is done and a running child is killed
TimerFire ==
    /\ timer = "armed"
    /\ rpc \in {"wait", "waited"}
    /\ MayFail
    /\ timer' = "fired"
    /\ ctxErr' = "DeadlineExceeded"
    /\ child' = IF child = "running" THEN "killed" ELSE child
    /\ faults' = IF Faulty THEN faults ELSE faults + 1
    /\ UNCHANGED <<variant, pc, adbOut, listVars, selVars, mainVars, exitCode, call, rpc, status,
                   outbuf, werr, captured, result, spawned>>

\* cmd.Wait returns: the child was killed, or exited with a status. When
\* the context expired before an exited child was reaped, the error depends
\* on whether Kill still reached the process.
WaitReturn ==
    /\ rpc = "wait"
    /\ child \in {"exited", "killed"}
    /\ \/ werr' = IF child = "killed" THEN "killed"
                  ELSE IF status # 0 THEN "exit" ELSE "nil"
       \/ /\ child = "exited"
          /\ status = 0
          /\ ctxErr = "DeadlineExceeded"
          /\ werr' = "ctx"
    /\ captured' = capture(call.fn, outbuf)
    /\ rpc' = "waited"
    /\ UNCHANGED <<variant, pc, adbOut, listVars, selVars, mainVars, exitCode, call, child, status,
                   outbuf, ctxErr, timer, result, spawned, faults>>

\* RunReturn without the deferred cancel()
RunReturnNoCancel ==
    /\ rpc = "waited"
    /\ result' = returnValue(call.fn, werr, ctxErr, captured)
    /\ timer' = timer
    /\ ctxErr' = IF call.fn \in WithContext /\ ctxErr = "nil" THEN "Canceled" ELSE ctxErr
    /\ rpc' = "returned"
    /\ UNCHANGED <<variant, pc, adbOut, listVars, selVars, mainVars, exitCode, call, child, status,
                   outbuf, werr, captured, spawned, faults>>

\* the classification of the outcome, and the deferred cancel()
RunReturn ==
    /\ rpc = "waited"
    /\ result' = returnValue(call.fn, werr, ctxErr, captured)
    /\ timer' = IF timer = "armed" THEN "stopped" ELSE timer
    /\ ctxErr' = IF call.fn \in WithContext /\ ctxErr = "nil" THEN "Canceled" ELSE ctxErr
    /\ rpc' = "returned"
    /\ UNCHANGED <<variant, pc, adbOut, listVars, selVars, mainVars, exitCode, call, child, status,
                   outbuf, werr, captured, spawned, faults>>

\* the Command Runner each program calls
runnerOf(v) ==
    CASE v = "probe" -> "runAdbCommandWithTimeout"
      [] v = "v1" -> "runAdbCommandV1"
      [] OTHER -> "runAdbCommand"

\* a call of the program's Command Runner
RunCall ==
    /\ pc = "run_call"
    /\ StartCall(runnerOf(variant), "generic", <<"1", "Z">>)
    /\ pc' = "run_wait"
    /\ UNCHANGED <<variant, adbOut, listVars, selVars, mainVars, exitCode>>

InitRun ==
    /\ variant \in Programs
    /\ pc = "run_call"
    /\ adbOut = <<>>
    /\ lines = <<>>
    /\ li = 0
    /\ devices = <<>>
    /\ stdin = <<>>
    /\ consumed = <<>>
    /\ input = <<>>
    /\ prompts = 0
    /\ errs = 0
    /\ selected = <<>>
    /\ exitCode = -1
    /\ RunnerIdle
    /\ memoryFlag = FALSE
    /\ issued = <<>>
    /\ qi = 0
    /\ probeErr = Unset
    /\ rbuf = <<>>
    /\ faults = 0
    /\ ReportIdle

NextRun == RunCall \/ ChildWrite \/ ChildExit \/ TimerFire \/ WaitReturn \/ RunReturn

SpecRun == InitRun /\ [][NextRun]_vars

\* ------------------------------------------------- getConnectedDevices
\* keepLine without the test for "offline"
keepLineDropCheck(ds, line) ==
    IF TrimSpace(line) # <<>> THEN Append(ds, Fields(line)[1]) ELSE ds

\* keepLine taking the last field for the first
keepLineLastField(ds, line) ==
    IF TrimSpace(line) # <<>> /\ ~HasSuffix(line, Offline)
    THEN Append(ds, Fields(line)[Len(Fields(line))])
    ELSE ds

\* the loop body of main.go / part_000: keep the first field
keepLine(ds, line) ==
    IF TrimSpace(line) # <<>> /\ ~HasSuffix(line, Offline)
    THEN Append(ds, Fields(line)[1])
    ELSE ds

\* the loop body of adbctl.go: keep the whole line
keepLineL(ds, line) ==
    IF TrimSpace(line) # <<>> /\ ~HasSuffix(line, Offline)
    THEN (IF Len(Fields(line)) > 0 THEN Append(ds, line) ELSE ds)
    ELSE ds

RECURSIVE loopLines(_, _, _, _)
loopLines(v, ls, i, ds) ==
    IF i > Len(ls) THEN ds
    ELSE loopLines(v, ls, i + 1,
                   IF v = "adbctl" THEN keepLineL(ds, ls[i]) ELSE keepLine(ds, ls[i]))

\* getConnectedDevices on the text the listing command printed
getConnectedDevices(v, text) == loopLines(v, Split(text), 2, <<>>)

\* cmd.Output() of the listing command, then strings.Split
ListRun ==
    /\ pc = "list_call"
    /\ issued' = Append(issued, [kind |-> "list", dev |-> <<>>, cmd |-> "devices"])
    /\ \/ /\ pc' = "exited"          \* err != nil: message, os.Exit(1)
          /\ exitCode' = 1
          /\ UNCHANGED <<lines, li, devices>>
       \/ /\ lines' = Split(adbOut)
          /\ li' = 2                  \* lines[1:]
          /\ devices' = <<>>
          /\ pc' = "list_loop"
          /\ UNCHANGED exitCode
    /\ UNCHANGED <<variant, adbOut, selVars, memoryFlag, qi, probeErr, repVars, runVars>>

\* one iteration of the range loop
ListStep ==
    /\ pc = "list_loop"
    /\ li <= Len(lines)
    /\ devices' = IF variant = "adbctl" THEN keepLineL(devices, lines[li])
                                        ELSE keepLine(devices, lines[li])
    /\ li' = li + 1
    /\ UNCHANGED <<variant, pc, adbOut, lines, exitCode, selVars, runVars, mainVars>>

\* return devices
ListReturn ==
    /\ pc = "list_loop"
    /\ li > Len(lines)
    /\ pc' = "list_done"
    /\ lines' = <<>>
    /\ li' = 0
    /\ UNCHANGED <<variant, adbOut, devices, exitCode, selVars, runVars, mainVars>>

InitList ==
    /\ variant \in Variants
    /\ pc = "list_call"
    /\ adbOut \in Texts
    /\ lines = <<>>
    /\ li = 0
    /\ devices = <<>>
    /\ stdin = <<>>
    /\ consumed = <<>>
    /\ input = <<>>
    /\ prompts = 0
    /\ errs = 0
    /\ selected = <<>>
    /\ exitCode = -1
    /\ RunnerIdle
    /\ memoryFlag = FALSE
    /\ issued = <<>>
    /\ qi = 0
    /\ probeErr = Unset
    /\ rbuf = <<>>
    /\ faults = 0
    /\ ReportIdle

NextList == ListRun \/ ListStep \/ ListReturn

SpecList == InitList /\ [][NextList]_vars

\* ------------------------------------------------------------ selectDevice
DigitChars == <<"0", "1", "2", "3", "4", "5", "6", "7", "8", "9">>
IsDigit(c) == \E d \in 1..10 : DigitChars[d] = c
DigitVal(c) == (CHOOSE d \in 1..10 : DigitChars[d] = c) - 1

RECURSIVE Dec(_)
\* the decimal numeral of a natural number
Dec(n) == IF n < 10 THEN <<DigitChars[n + 1]>>
          ELSE Dec(n \div 10) \o <<DigitChars[(n % 10) + 1]>>

RECURSIVE NumberTok(_)
\* fmt's scanNumber for %d: the longest prefix of decimal digits and "_"
NumberTok(s) ==
    IF s # <<>> /\ (IsDigit(Head(s)) \/ Head(s) = "_")
    THEN <<Head(s)>> \o NumberTok(Tail(s))
    ELSE <<>>

RECURSIVE DecValue(_, _)
DecValue(tok, acc) ==
    IF tok = <<>> THEN acc ELSE DecValue(Tail(tok), 10 * acc + DigitVal(Head(tok)))

\* fmt.Sscanf(input, "%d", &index): an optional sign and the digits that
\* follow are scanned and converted; whatever follows them is not looked at.
\* (The numerals of the model are far from the range of int.)
Sscanf(s) ==
    LET signed == s # <<>> /\ Head(s) \in {"+", "-"}
        tok    == NumberTok(IF signed THEN Tail(s) ELSE s)
    IN  IF s = <<>> THEN [err |-> TRUE, index |-> 0]                \* unexpected EOF
        ELSE IF tok = <<>> THEN [err |-> TRUE, index |-> 0]         \* expected integer
        ELSE IF \E p \in 1..Len(tok) : tok[p] = "_"
             THEN [err |-> TRUE, index |-> 0]                       \* strconv syntax error
        ELSE [err |-> FALSE,
              index |-> IF signed /\ Head(s) = "-" THEN 0 - DecValue(tok, 0)
                                                   ELSE DecValue(tok, 0)]

\* deviceID taking the last field of a kept line
deviceIDLastField(v, d) == IF v = "adbctl" THEN Fields(d)[Len(Fields(d))] ELSE d

\* the identifier of an entry of devices: adbctl.go keeps whole lines
deviceID(v, d) == IF v = "adbctl" THEN Fields(d)[1] ELSE d

\* the acceptance test of the selection loop
accepted(r, n) == ~r.err /\ r.index > 0 /\ r.index <= n

\* SelectEntry without the exit on an empty list
SelectEntryNoExit ==
    /\ pc = "select_call"
    /\ IF Len(devices) = 1
       THEN /\ pc' = "selected"
            /\ selected' = deviceID(variant, devices[1])
       ELSE /\ pc' = "select_prompt"
            /\ UNCHANGED selected
    /\ UNCHANGED <<variant, adbOut, listVars, stdin, consumed, input, prompts, errs, rbuf,
                   exitCode, runVars, mainVars>>

\* SelectEntry without the shortcut for a single device
SelectEntryNoShortcut ==
    /\ pc = "select_call"
    /\ IF Len(devices) = 0
       THEN /\ pc' = "exited"
            /\ exitCode' = 1
       ELSE /\ pc' = "select_prompt"
            /\ UNCHANGED exitCode
    /\ UNCHANGED <<variant, adbOut, listVars, stdin, consumed, input, prompts, errs, rbuf,
                   selected, runVars, mainVars>>

\* the three branches before the loop
SelectEntry ==
    /\ pc = "select_call"
    /\ IF Len(devices) = 0
       THEN /\ pc' = "exited"        \* instructions printed, os.Exit(1)
            /\ exitCode' = 1
            /\ UNCHANGED selected
       ELSE IF Len(devices) = 1
       THEN /\ pc' = "selected"
            /\ selected' = deviceID(variant, devices[1])
            /\ UNCHANGED exitCode
       ELSE /\ pc' = "select_prompt" \* numbered list printed
            /\ UNCHANGED <<selected, exitCode>>
    /\ UNCHANGED <<variant, adbOut, listVars, stdin, consumed, input, prompts, errs, rbuf,
                   runVars, mainVars>>

\* fmt.Print of the prompt at the head of the loop
SelectPrompt ==
    /\ pc = "select_prompt"
    /\ prompts < MaxPrompts
    /\ prompts' = prompts + 1
    /\ pc' = "select_read"
    /\ UNCHANGED <<variant, adbOut, listVars, stdin, consumed, input, errs, rbuf,
                   selected, exitCode, runVars, mainVars>>

\* reader.ReadString('\n') of a bufio.Reader holding the lines buf while the
\* lines rest wait on standard input: a line the reader holds is returned;
\* an empty reader first reads from standard input, which gives it one line
\* (a terminal) or several of the waiting lines (a pipe or a file); at end
\* of input ReadString returns "" and an error
ReadString(buf, rest) ==
    IF buf # <<>>
    THEN {[raw |-> Head(buf), got |-> TRUE, buf |-> Tail(buf), rest |-> rest]}
    ELSE IF rest = <<>>
    THEN {[raw |-> <<>>, got |-> FALSE, buf |-> <<>>, rest |-> <<>>]}
    ELSE {[raw |-> Head(rest), got |-> TRUE, buf |-> SubSeq(rest, 2, k),
           rest |-> SubSeq(rest, k + 1, Len(rest))] : k \in 1..Len(rest)}

\* reader.ReadString on the reader made before the loop, TrimSpace, Sscanf
\* and the test; the error of ReadString is ignored
SelectRead ==
    /\ pc = "select_read"
    /\ \E o \in ReadString(rbuf, stdin) :
       LET raw == o.raw
           in  == TrimSpace(raw)
           r   == Sscanf(in)
       IN  /\ stdin' = o.rest
           /\ rbuf' = o.buf
           /\ consumed' = IF o.got THEN Append(consumed, raw) ELSE consumed
           /\ input' = in
           /\ IF accepted(r, Len(devices))
              THEN /\ selected' = deviceID(variant, devices[r.index])
                   /\ pc' = "selected"
                   /\ UNCHANGED errs
              ELSE /\ errs' = errs + 1
                   /\ pc' = "select_prompt"
                   /\ UNCHANGED selected
    /\ UNCHANGED <<variant, adbOut, listVars, prompts, exitCode, runVars, mainVars>>

RECURSIVE selectLoop(_, _, _, _)
\* the loop of selectDevice over the console lines script, after asked
\* prompts: prompt, ReadString (an empty line at end of input), TrimSpace,
\* Sscanf, the test; exit = -1 stands for a process that has not exited,
\* and a loop still asking after MaxPrompts prompts has no identifier yet
selectLoop(v, devs, script, asked) ==
    IF asked = MaxPrompts
    THEN [id |-> <<>>, prompts |-> asked, exit |-> -1]
    ELSE LET raw == IF script = <<>> THEN <<>> ELSE Head(script)
             r   == Sscanf(TrimSpace(raw))
         IN  IF accepted(r, Len(devs))
             THEN [id |-> deviceID(v, devs[r.index]), prompts |-> asked + 1, exit |-> -1]
             ELSE selectLoop(v, devs, IF script = <<>> THEN <<>> ELSE Tail(script),
                             asked + 1)

\* selectDevice as a function of its argument and of the console lines
selectDevice(v, devs, script) ==
    IF Len(devs) = 0 THEN [id |-> <<>>, prompts |-> 0, exit |-> 1]
    ELSE IF Len(devs) = 1 THEN [id |-> deviceID(v, devs[1]), prompts |-> 0, exit |-> -1]
    ELSE selectLoop(v, devs, script, 0)

\* the console lines of the model
InputLines ==
    { <<"a", "b", "c">>, <<>>, <<"2", "x">>, <<"-", "1">> }
        \cup {Dec(n) : n \in 0..(MaxLines + 1)}

\* "abc", "0", "K+1", "2"
Scenario(K) == << <<"a", "b", "c">>, Dec(0), Dec(K + 1), Dec(2) >>

InputScripts == SeqsUpTo(InputLines, MaxInput) \cup {Scenario(K) : K \in 2..MaxLines}

\* the listing line of the n-th attached device: identifiers are unique
DeviceLine(n) ==
    IF n % 2 = 1 THEN <<DigitChars[n + 1], "Z", "\t", "d">>
                 ELSE <<DigitChars[n + 1], "Z", " ", "d", " ", "u">>

\* listings of k usable lines, to draw argument lists of every length from
SelectTexts ==
    {JoinLines(<<Header>> \o [n \in 1..k |-> DeviceLine(n)]) : k \in 0..MaxLines}

InitSelect ==
    /\ variant \in Variants
    /\ pc = "select_call"
    /\ adbOut \in SelectTexts
    /\ lines = <<>>
    /\ li = 0
    /\ devices = getConnectedDevices(variant, adbOut)
    /\ stdin \in InputScripts
    /\ consumed = <<>>
    /\ input = <<>>
    /\ prompts = 0
    /\ errs = 0
    /\ selected = <<>>
    /\ exitCode = -1
    /\ RunnerIdle
    /\ memoryFlag = FALSE
    /\ issued = <<>>
    /\ qi = 0
    /\ probeErr = Unset
    /\ rbuf = <<>>
    /\ faults = 0
    /\ ReportIdle

NextSelect == SelectEntry \/ SelectPrompt \/ SelectRead

SpecSelect == InitSelect /\ [][NextSelect]_vars

\* ------------------------------------------------- the values of a report
\* strconv.Atoi as the parsers use it (value, _ := ...): a decimal numeral
\* with an optional sign gives its value, anything else gives 0
Atoi(s) ==
    LET signed == s # <<>> /\ Head(s) \in {"+", "-"}
        ds     == IF signed THEN Tail(s) ELSE s
    IN  IF ds = <<>> \/ \E p \in 1..Len(ds) : ~IsDigit(ds[p]) THEN 0
        ELSE IF signed /\ Head(s) = "-" THEN 0 - DecValue(ds, 0)
        ELSE DecValue(ds, 0)

\* fmt's %d
FmtInt(n) == IF n < 0 THEN <<"-">> \o Dec(0 - n) ELSE Dec(n)

\* the number of hundredths %.2f prints for num / den (both exact, den > 0):
\* rounded to the nearest, a tie to the even one
Hundredths(num, den) ==
    LET q == (100 * num) \div den
        r == (100 * num) % den
    IN  IF 2 * r > den \/ (2 * r = den /\ q % 2 = 1) THEN q + 1 ELSE q

\* fmt's %.2f of num / den
FmtFixed2(num, den) ==
    LET h == Hundredths(IF num < 0 THEN 0 - num ELSE num, den)
    IN  (IF num < 0 THEN <<"-">> ELSE <<>>)
            \o Dec(h \div 100) \o <<".">>
            \o <<DigitChars[((h \div 10) % 10) + 1], DigitChars[(h % 10) + 1]>>

\* kB in a GB
KBPerGB == 1048576

\* "%.2f GB / %d kB (%.2f GB used, %.2f GB free)"
formatMemory(totalKB, usedKB_, freeKB) ==
    FmtFixed2(totalKB, KBPerGB) \o <<" ", "G", "B", " ", "/", " ">> \o FmtInt(totalKB) \o <<" ", "k", "B", " ", "(">>
        \o FmtFixed2(usedKB_, KBPerGB) \o <<" ", "G", "B", " ", "u", "s", "e", "d", ",", " ">>
        \o FmtFixed2(freeKB, KBPerGB) \o <<" ", "G", "B", " ", "f", "r", "e", "e", ")">>

MemTotalKey == <<"M", "e", "m", "T", "o", "t", "a", "l", ":">>
MemFreeKey == <<"M", "e", "m", "F", "r", "e", "e", ":">>
MemAvailableKey == <<"M", "e", "m", "A", "v", "a", "i", "l", "a", "b", "l", "e", ":">>

\* the three counters of parseMemInfo before the loop
NoMem == [panic |-> FALSE, totalKB |-> 0, freeKB |-> 0, availableKB |-> 0]

RECURSIVE memLoop(_, _, _)
\* the loop of parseMemInfo / getMemoryInfo: strings.Fields(line)[1] of a line
\* with a single field is an index out of range, which ends the program
memLoop(ls, i, m) ==
    IF i > Len(ls) \/ m.panic THEN m
    ELSE LET line == ls[i]
             f    == Fields(line)
             hit  == HasPrefix(line, MemTotalKey) \/ HasPrefix(line, MemFreeKey)
                        \/ HasPrefix(line, MemAvailableKey)
         IN  IF ~hit THEN memLoop(ls, i + 1, m)
             ELSE IF Len(f) < 2 THEN [m EXCEPT !.panic = TRUE]
             ELSE IF HasPrefix(line, MemTotalKey)
                  THEN memLoop(ls, i + 1, [m EXCEPT !.totalKB = Atoi(f[2])])
             ELSE IF HasPrefix(line, MemFreeKey)
                  THEN memLoop(ls, i + 1, [m EXCEPT !.freeKB = Atoi(f[2])])
             ELSE memLoop(ls, i + 1, [m EXCEPT !.availableKB = Atoi(f[2])])

\* parseMemInfo up to usedKB := totalKB - availableKB
parseMemInfo(meminfo) ==
    LET m == memLoop(Split(meminfo), 1, NoMem)
    IN  [panic |-> m.panic,
         usedKB |-> m.totalKB - m.availableKB,
         text |-> formatMemory(m.totalKB, m.totalKB - m.availableKB, m.freeKB)]

\* strings.TrimSuffix(s, ":")
TrimColon(s) ==
    IF s # <<>> /\ s[Len(s)] = ":" THEN SubSeq(s, 1, Len(s) - 1) ELSE s

\* memData[key] of getDetailedMemoryInfo after its loop: the number of the
\* last line of two fields or more whose first field is the key, 0 for a key
\* the map does not hold
memData(meminfo, key) ==
    LET ls == Split(meminfo)
        H  == {i \in 1..Len(ls) : /\ Len(Fields(ls[i])) >= 2
                                  /\ TrimColon(Fields(ls[i])[1]) = key}
    IN  IF H = {} THEN 0
        ELSE Atoi(Fields(ls[CHOOSE i \in H : \A h \in H : h <= i])[2])

\* the variant of getDetailedMemoryInfo that subtracts the free memory
usedMemOfFree(meminfo) ==
    memData(meminfo, TrimColon(MemTotalKey)) - memData(meminfo, TrimColon(MemFreeKey))

\* usedMem := memData["MemTotal"] - memData["MemAvailable"]
usedMem(meminfo) ==
    memData(meminfo, TrimColon(MemTotalKey))
        - memData(meminfo, TrimColon(MemAvailableKey))

ProcessorKey == <<"p", "r", "o", "c", "e", "s", "s", "o", "r">>

RECURSIVE countCores(_, _)
\* parseCPUInfo / getCPUInfo: the lines that start with "processor"
countCores(ls, i) ==
    IF i > Len(ls) THEN 0
    ELSE (IF HasPrefix(ls[i], ProcessorKey) THEN 1 ELSE 0) + countCores(ls, i + 1)

\* strings.TrimSuffix(s, "%")
TrimPercent(s) ==
    IF s # <<>> /\ s[Len(s)] = "%" THEN SubSeq(s, 1, Len(s) - 1) ELSE s

\* strconv.ParseFloat as parseCPUInfo uses it (value, _ := ...), in
\* hundredths: the model's usage figures are whole numbers; text that is not
\* a number gives 0
ParseFloat100(s) ==
    IF s # <<>> /\ \A p \in 1..Len(s) : IsDigit(s[p]) THEN 100 * DecValue(s, 0) ELSE 0

\* "%d cores (%.2f%% used)"
parseCPUInfo(cpuinfo, cpuUsage) ==
    LET usageFields == Fields(cpuUsage)
        usedCPU == IF Len(usageFields) >= 4
                   THEN ParseFloat100(TrimPercent(usageFields[4])) ELSE 0
    IN  Dec(countCores(Split(cpuinfo), 1)) \o <<" ", "c", "o", "r", "e", "s", " ", "(">>
            \o FmtFixed2(usedCPU, 100) \o <<"%", " ", "u", "s", "e", "d", ")">>

\* adbctl.go: the second line of `df -k /data`
parseStorageInfo(dfOutput) ==
    LET ls == Split(dfOutput)
    IN  IF Len(ls) < 2 THEN NA
        ELSE LET fields == Fields(ls[2])
             IN  IF Len(fields) < 4 THEN NA
                 ELSE formatMemory(Atoi(fields[2]), Atoi(fields[3]), Atoi(fields[4]))

\* adbctl.go: the table of mapCPUABI
CPUABINames ==
    {<<<<"a", "r", "m", "e", "a", "b", "i">>, <<"ARM EABI (32-bit)">>>>,
     <<<<"a", "r", "m", "e", "a", "b", "i", "-", "v", "7", "a">>, <<"ARM EABI v7a (32-bit, with hardware floating-point support)">>>>,
     <<<<"a", "r", "m", "6", "4", "-", "v", "8", "a">>, <<"ARM 64-bit (v8a)">>>>,
     <<<<"x", "8", "6">>, <<"Intel x86 (32-bit)">>>>,
     <<<<"x", "8", "6", "_", "6", "4">>, <<"Intel x86_64 (64-bit)">>>>,
     <<<<"m", "i", "p", "s">>, <<"MIPS (32-bit)">>>>,
     <<<<"m", "i", "p", "s", "6", "4">>, <<"MIPS 64-bit">>>>}

\* an ABI the table knows is replaced by its name, any other text is kept
mapCPUABI(abi) ==
    IF \E e \in CPUABINames : e[1] = abi
    THEN (CHOOSE e \in CPUABINames : e[1] = abi)[2]
    ELSE abi

\* adbctl.go: the table of mapFireOSModel: model, name, link
FireOSModels ==
    {<<<<"A", "F", "T", "T", "O", "R", "0", "0", "1">>,
       "Panasonic OLED TV VIERA with Fire TV integration (2024)",
       "https://developer.amazon.com/docs/fire-tv/device-specifications-fire-tv-edition-smart-tv.html?v=panasonic_fire_tv_2024_jp">>,
     <<<<"A", "F", "T", "W", "Y", "M", "0", "1">>,
       "Panasonic OLED TV VIERA with Fire TV integration (2024)",
       "https://developer.amazon.com/docs/fire-tv/device-specifications-fire-tv-edition-smart-tv.html?v=panasonic_fire_tv_2024_jp">>,
     <<<<"A", "F", "T", "G", "O", "L", "D", "F", "F">>,
       "Panasonic Fire TV (2024)",
       "https://developer.amazon.com/docs/fire-tv/device-specifications-fire-tv-edition-smart-tv-emea.html?v=ftvedition_panasonic4k">>,
     <<<<"A", "F", "T", "D", "E", "C", "0", "1", "2", "E">>,
       "Fire TV - TCL S4/S5/Q5/Q6 Series 4K UHD HDR LED (2024)",
       "https://developer.amazon.com/docs/fire-tv/device-specifications-fire-tv-edition-smart-tv.html?v=tcl_s4s5q5q6_2024">>,
     <<<<"A", "F", "T", "B", "T", "X", "4">>,
       "Redmi 108cm (43 inches) 4K Ultra HD smart LED Fire TV (2023)",
       "https://developer.amazon.com/docs/fire-tv/device-specifications-fire-tv-edition-smart-tv.html?v=redmi_108_f_4k_uhd_2023">>,
     <<<<"A", "F", "T", "M", "D", "0", "0", "2">>,
       "TCL Class S3 1080p LED Smart TV with Fire TV (2023)",
       "https://developer.amazon.com/docs/fire-tv/device-specifications-fire-tv-edition-smart-tv.html?v=tclclass_s3_1080_2023">>,
     <<<<"A", "F", "T", "K", "R", "T">>,
       "Fire TV Stick 4K Max - 2nd Gen (2023) - 16 GB",
       "https://developer.amazon.com/docs/fire-tv/device-specifications-fire-tv-stick.html?v=ftvstick4kmax_gen2_16">>,
     <<<<"A", "F", "T", "K", "M">>,
       "Fire TV Stick 4K - 2nd Gen (2023) - 8 GB",
       "https://developer.amazon.com/docs/fire-tv/device-specifications-fire-tv-stick.html?v=ftvstick4k_gen2_8">>,
     <<<<"A", "F", "T", "S", "H", "N", "0", "2">>,
       "TCL 32\" FHD, 40\" FHD Fire TV (2023)",
       "https://developer.amazon.com/docs/fire-tv/device-specifications-fire-tv-edition-smart-tv.html?v=tclsmart_fhd__led_2023">>,
     <<<<"A", "F", "T", "M", "D", "0", "0", "1">>,
       "Fire TV - TCL S4 Series 4K UHD HDR LED (2023)",
       "https://developer.amazon.com/docs/fire-tv/device-specifications-fire-tv-edition-smart-tv.html?v=tclsseries_4K_2023">>,
     <<<<"A", "F", "T", "K", "A", "0", "0", "2">>,
       "Fire TV 2-Series (2023)",
       "https://developer.amazon.com/docs/fire-tv/device-specifications-fire-tv-edition-smart-tv.html?v=2series2023">>,
     <<<<"A", "F", "T", "K", "A", "U", "K", "0", "0", "2">>,
       "Fire TV 2-Series (2023)",
       "https://developer.amazon.com/docs/fire-tv/device-specifications-fire-tv-edition-smart-tv.html?v=2series2023">>,
     <<<<"A", "F", "T", "H", "A", "0", "0", "4">>,
       "Toshiba 4K UHD - Fire TV (2022)",
       "https://developer.amazon.com/docs/fire-tv/device-specifications-fire-tv-edition-smart-tv.html?v=toshiba4k2022">>,
     <<<<"A", "F", "T", "L", "B", "T", "9", "6", "2", "E", "2">>,
       "BMW (2022)",
       "https://developer.amazon.com/docs/fire-tv/device-specifications-automotive.html?v=BMW2022">>,
     <<<<"A", "E", "O", "H", "Y">>,
       "Echo Show 15 (2021)",
       "https://developer.amazon.com/docs/fire-tv/device-specifications-echo-show.html?v=echoshow2021">>,
     <<<<"A", "F", "T", "T", "I", "F", "F", "4", "3">>,
       "Fire TV Omni QLED Series (2022)",
       "https://developer.amazon.com/docs/fire-tv/device-specifications-fire-tv-edition-smart-tv.html?v=omniseries2">>,
     <<<<"A", "F", "T", "G", "A", "Z", "L">>,
       "Fire TV Cube - 3rd Gen (2022)",
       "https://developer.amazon.com/docs/fire-tv/device-specifications-fire-tv-cube.html?v=ftvcubegen3">>,
     <<<<"A", "F", "T", "A", "N", "N", "A", "0">>,
       "Xiaomi F2 4K - Fire TV (2022)",
       "https://developer.amazon.com/docs/fire-tv/device-specifications-fire-tv-edition-smart-tv.html?v=firetvedition_xiaomi2022">>,
     <<<<"A", "F", "T", "H", "A", "0", "0", "1">>,
       "Hisense U6 4K UHD - Fire TV (2022)",
       "https://developer.amazon.com/docs/fire-tv/device-specifications-fire-tv-edition-smart-tv.html?v=firetvedition_hisense4k">>,
     <<<<"A", "F", "T", "M", "O", "N", "0", "0", "1">>,
       "Funai 4K - Fire TV (2022)",
       "https://developer.amazon.com/docs/fire-tv/device-specifications-fire-tv-edition-smart-tv.html?v=firetvedition_funai4k2022">>,
     <<<<"A", "F", "T", "M", "O", "N", "0", "0", "2">>,
       "Funai 4K - Fire TV (2022)",
       "https://developer.amazon.com/docs/fire-tv/device-specifications-fire-tv-edition-smart-tv.html?v=firetvedition_funai4k2022">>,
     <<<<"A", "F", "T", "J", "U", "L", "I", "1">>,
       "JVC 4K - Fire TV with Freeview Play (2021)",
       "https://developer.amazon.com/docs/fire-tv/device-specifications-fire-tv-edition-smart-tv.html?v=firetvedition_jvc4kfp">>,
     <<<<"A", "F", "T", "W", "M", "S", "T", "2", "2">>,
       "JVC 2K - Fire TV (2020)",
       "https://developer.amazon.com/docs/fire-tv/device-specifications-fire-tv-edition-smart-tv.html?v=firetveditionuk_jvc2">>,
     <<<<"A", "F", "T", "T", "I", "F", "F", "5", "5">>,
       "Onida HD/FHD - Fire TV (2020)",
       "https://developer.amazon.com/docs/fire-tv/device-specifications-fire-tv-edition-smart-tv.html?v=ftveditionin_onidahd2020">>,
     <<<<"A", "F", "T", "W", "I", "0", "0", "1">>,
       "ok 4K - Fire TV (2020)",
       "https://developer.amazon.com/docs/fire-tv/device-specifications-fire-tv-edition-smart-tv.html?v=ftveditionde_ok4k">>,
     <<<<"A", "F", "T", "S", "S", "S">>,
       "Fire TV Stick - 3rd Gen (2020)",
       "https://developer.amazon.com/docs/fire-tv/device-specifications-fire-tv-stick.html?v=ftvstickgen3">>,
     <<<<"A", "F", "T", "S", "S">>,
       "Fire TV Stick Lite - 1st Gen (2020)",
       "https://developer.amazon.com/docs/fire-tv/device-specifications-fire-tv-stick.html?v=ftvsticklite">>,
     <<<<"A", "F", "T", "D", "C", "T", "3", "1">>,
       "Toshiba 4K UHD - Fire TV (2020)",
       "https://developer.amazon.com/docs/fire-tv/device-specifications-fire-tv-edition-smart-tv.html?v=ftveditiontoshiba4k_2020">>,
     <<<<"A", "F", "T", "P", "R", "0", "0", "1">>,
       "AmazonBasics 4K - Fire TV (2020)",
       "https://developer.amazon.com/docs/fire-tv/device-specifications-fire-tv-edition-smart-tv.html?v=ftveditionin_amazonbasics4k">>,
     <<<<"A", "F", "T", "B", "U", "0", "0", "1">>,
       "AmazonBasics HD/FHD - Fire TV (2020)",
       "https://developer.amazon.com/docs/fire-tv/device-specifications-fire-tv-edition-smart-tv.html?v=ftveditionin_amazonbasics2k">>,
     <<<<"A", "F", "T", "L", "E">>,
       "Onida HD - Fire TV (2019)",
       "https://developer.amazon.com/docs/fire-tv/device-specifications-fire-tv-edition-smart-tv.html?v=ftveditionin_onidahd">>,
     <<<<"A", "F", "T", "R">>,
       "Fire TV Cube - 2nd Gen (2019)",
       "https://developer.amazon.com/docs/fire-tv/device-specifications-fire-tv-cube.html?v=ftvcubegen2">>,
     <<<<"A", "F", "T", "E", "U", "F", "F", "0", "1", "4">>,
       "Grundig OLED 4K - Fire TV (2019)",
       "https://developer.amazon.com/docs/fire-tv/device-specifications-fire-tv-edition-smart-tv.html?v=ftveditionde_grundigoled">>,
     <<<<"A", "F", "T", "E", "U", "0", "1", "4">>,
       "Grundig Vision 7, 4K - Fire TV (2019)",
       "https://developer.amazon.com/docs/fire-tv/device-specifications-fire-tv-edition-smart-tv.html?v=ftveditionde_grundigvision7">>,
     <<<<"A", "F", "T", "S", "O", "0", "0", "1">>,
       "JVC 4K - Fire TV (2019)",
       "https://developer.amazon.com/docs/fire-tv/device-specifications-fire-tv-edition-smart-tv.html?v=ftveditionuk_jvc4k">>,
     <<<<"A", "F", "T", "E", "U", "0", "1", "1">>,
       "Grundig Vision 6 HD - Fire TV (2019)",
       "https://developer.amazon.com/docs/fire-tv/device-specifications-fire-tv-edition-smart-tv.html?v=ftveditionde_grundigvision6">>,
     <<<<"A", "F", "T", "J", "M", "S", "T", "1", "2">>,
       "Insignia 4K - Fire TV (2018)",
       "https://developer.amazon.com/docs/fire-tv/device-specifications-fire-tv-edition-smart-tv.html?v=ftveditioninsignia4k">>,
     <<<<"A", "F", "T", "A">>,
       "Fire TV Cube - 1st Gen (2018)",
       "https://developer.amazon.com/docs/fire-tv/device-specifications-fire-tv-cube.html?v=ftvcubegen1">>,
     <<<<"A", "F", "T", "M", "M">>,
       "Fire TV Stick 4K - 1st Gen (2018)",
       "https://developer.amazon.com/docs/fire-tv/device-specifications-fire-tv-stick.html?v=ftvstick4k">>,
     <<<<"A", "F", "T", "T">>,
       "Fire TV Stick - Basic Edition (2017)",
       "https://developer.amazon.com/docs/fire-tv/device-specifications-fire-tv-stick.html?v=ftvstickbasicedition">>,
     <<<<"A", "F", "T", "R", "S">>,
       "Element 4K - Fire TV (2017)",
       "https://developer.amazon.com/docs/fire-tv/device-specifications-fire-tv-edition-smart-tv.html?v=ftveditionelement">>,
     <<<<"A", "F", "T", "N">>,
       "Fire TV - 3rd Gen (2017)",
       "https://developer.amazon.com/docs/fire-tv/device-specifications-fire-tv-pendant-box.html?v=ftvgen3">>,
     <<<<"A", "F", "T", "S">>,
       "Fire TV - 2nd Gen (2015)",
       "https://developer.amazon.com/docs/fire-tv/device-specifications-fire-tv-pendant-box.html?v=ftvgen2">>,
     <<<<"A", "F", "T", "M">>,
       "Fire TV Stick - 1st Gen (2014)",
       "https://developer.amazon.com/docs/fire-tv/device-specifications-fire-tv-stick.html?v=ftvstickgen1">>,
     <<<<"A", "F", "T", "B">>,
       "Fire TV - 1st Gen (2014)",
       "https://developer.amazon.com/docs/fire-tv/device-specifications-fire-tv-pendant-box.html?v=ftvgen1">>,
     <<<<"A", "F", "T", "H", "A", "0", "0", "2">>,
       "Toshiba V35 Series LED FHD/HD - Fire TV (2021)",
       "https://developer.amazon.com/docs/fire-tv/device-specifications-fire-tv-edition-smart-tv.html?v=firetvedition_toshibav35">>}

\* fmt.Sprintf("%s (%s)", name, link) for a model the table knows, any other
\* text is kept
mapFireOSModel(model) ==
    IF \E e \in FireOSModels : e[1] = model
    THEN LET e == CHOOSE x \in FireOSModels : x[1] = model
         IN  <<e[2], " (", e[3], ")">>
    ELSE model

\* ------------------------------------------------------------ the programs
\* getDeviceInfo: the label, the property and the use of the result of each
\* call of the Command Runner, in the order of the calls. "hold" keeps the
\* result for the next call's entry, "check" is the manufacturer test of
\* part_000, "fireOS" appends the two entries of getFireOSInfo.
QueriesMain ==
    << <<"Model", "ro.product.model", "raw">>,
       <<"Android Version", "ro.build.version.release", "raw">>,
       <<"API Level", "ro.build.version.sdk", "raw">>,
       <<"CPU ABI", "ro.product.cpu.abi", "raw">>,
       <<"Manufacturer", "ro.product.manufacturer", "raw">>,
       <<"Build Number", "ro.build.display.id", "raw">>,
       <<"Memory", "/proc/meminfo", "parseMemInfo">>,
       <<"CPU", "/proc/cpuinfo", "hold">>,
       <<"CPU", "top", "parseCPUInfo">>,
       <<"Storage", "df 2", "raw">>,
       <<"Free Storage", "df 4", "raw">>,
       <<"Screen Resolution", "wm size", "raw">>,
       <<"Screen Density", "wm density", "raw">>,
       <<"Battery Level", "dumpsys battery", "raw">>,
       <<"Fire OS Version", "ro.build.version.name", "raw">>,
       <<"Fire OS Build Number", "ro.build.version.number", "raw">> >>

QueriesAdbctl ==
    << <<"Model", "ro.product.model", "mapFireOSModel">>,
       <<"Android Version", "ro.build.version.release", "raw">>,
       <<"API Level", "ro.build.version.sdk", "raw">>,
       <<"CPU ABI", "ro.product.cpu.abi", "mapCPUABI">>,
       <<"Manufacturer", "ro.product.manufacturer", "raw">>,
       <<"Build Number", "ro.build.display.id", "raw">>,
       <<"Memory", "/proc/meminfo", "parseMemInfo">>,
       <<"CPU", "/proc/cpuinfo", "hold">>,
       <<"CPU", "top", "parseCPUInfo">>,
       <<"Storage", "df -k", "parseStorageInfo">>,
       <<"Screen Resolution", "wm size", "raw">>,
       <<"Screen Density", "wm density", "raw">>,
       <<"Battery Level", "dumpsys battery", "raw">>,
       <<"Fire OS Version", "ro.build.version.name", "raw">>,
       <<"Fire OS Build Number", "ro.build.version.number", "raw">>,
       <<"IP Address", "ip addr", "raw">>,
       <<"WiFi SSID", "dumpsys wifi", "raw">> >>

\* part_000: the last three are the manufacturer check and getFireOSInfo
QueriesProbe ==
    << <<"Model", "ro.product.model", "raw">>,
       <<"Android Version", "ro.build.version.release", "raw">>,
       <<"API Level", "ro.build.version.sdk", "raw">>,
       <<"CPU ABI", "ro.product.cpu.abi", "raw">>,
       <<"Manufacturer", "ro.product.manufacturer", "raw">>,
       <<"Build Number", "ro.build.display.id", "raw">>,
       <<"Memory", "/proc/meminfo", "parseMemInfo">>,
       <<"CPU", "/proc/cpuinfo", "hold">>,
       <<"CPU", "top", "parseCPUInfo">>,
       <<"Storage", "df 2", "raw">>,
       <<"Free Storage", "df 4", "raw">>,
       <<"Screen Resolution", "wm size", "raw">>,
       <<"Screen Density", "wm density", "raw">>,
       <<"Battery Level", "dumpsys battery", "raw">>,
       <<"", "ro.product.manufacturer", "check">>,
       <<"Fire OS Version", "ro.build.version.name", "hold">>,
       <<"Fire OS Build Number", "ro.build.version.number", "fireOS">> >>

QueriesV1 ==
    << <<"Model", "ro.product.model", "raw">>,
       <<"Android Version", "ro.build.version.release", "raw">>,
       <<"API Level", "ro.build.version.sdk", "raw">>,
       <<"CPU ABI", "ro.product.cpu.abi", "raw">>,
       <<"Manufacturer", "ro.product.manufacturer", "raw">>,
       <<"Build Number", "ro.build.display.id", "raw">>,
       <<"Total RAM", "/proc/meminfo", "raw">>,
       <<"CPU Cores", "nproc", "raw">> >>

Queries(v) ==
    CASE v = "main" -> QueriesMain
      [] v = "adbctl" -> QueriesAdbctl
      [] v = "probe" -> QueriesProbe
      [] OTHER -> QueriesV1

\* strings.ToLower on the letters the model uses
ToLower(t) ==
    [p \in 1..Len(t) |->
        CASE t[p] = "A" -> "a" [] t[p] = "M" -> "m" [] t[p] = "Z" -> "z"
          [] t[p] = "O" -> "o" [] t[p] = "N" -> "n" [] OTHER -> t[p]]

Amazon == <<"a", "m", "a", "z", "o", "n">>

\* the caller takes the returned value: the call is over
Collect ==
    /\ call' = NoCall
    /\ rpc' = "idle"
    /\ child' = "none"
    /\ status' = 0
    /\ outbuf' = <<>>
    /\ ctxErr' = "nil"
    /\ timer' = "none"
    /\ werr' = "nil"
    /\ captured' = <<>>
    /\ result' = <<>>
    /\ spawned' = 0
    /\ faults' = faults

\* main up to its first call: getConnectedDevices, or getDeviceInfo in the
\* early program
MainStart ==
    /\ pc = "start"
    /\ IF variant = "v1" THEN pc' = "info_loop" /\ qi' = 1
                         ELSE pc' = "list_call" /\ qi' = qi
    /\ UNCHANGED <<variant, adbOut, listVars, selVars, exitCode, runVars, memoryFlag,
                   issued, probeErr, repVars>>

\* selectedDevice := selectDevice(devices)
MainSelect ==
    /\ pc = "list_done"
    /\ pc' = "select_call"
    /\ UNCHANGED <<variant, adbOut, listVars, selVars, exitCode, runVars, mainVars>>

\* MainAfterSelect without the test of the memory flag
MainAfterSelectMenu ==
    /\ pc = "selected"
    /\ rpc = "idle"
    /\ IF variant = "probe"
       THEN /\ StartCall("checkDeviceConnectivity", "probe", selected)
            /\ issued' = Append(issued, [kind |-> "probe", dev |-> selected, cmd |-> "echo connected"])
            /\ pc' = "probe_wait"
       ELSE /\ pc' = "menu"
            /\ UNCHANGED <<runVars, issued>>
    /\ UNCHANGED <<variant, adbOut, listVars, selVars, exitCode, memoryFlag, qi, probeErr,
                   repVars>>

\* what main does with the selected device: the probe in part_000, the
\* memory report or the menu in main.go and adbctl.go
MainAfterSelect ==
    /\ pc = "selected"
    /\ rpc = "idle"
    /\ IF variant = "probe"
       THEN /\ StartCall("checkDeviceConnectivity", "probe", selected)
            /\ issued' = Append(issued, [kind |-> "probe", dev |-> selected, cmd |-> "echo connected"])
            /\ pc' = "probe_wait"
       ELSE /\ pc' = IF memoryFlag THEN "mem_call" ELSE "menu"
            /\ UNCHANGED <<runVars, issued>>
    /\ UNCHANGED <<variant, adbOut, listVars, selVars, exitCode, memoryFlag, qi, probeErr,
                   repVars>>

\* err := checkDeviceConnectivity(...); if err != nil { ...; os.Exit(1) }
ProbeReturn ==
    /\ pc = "probe_wait"
    /\ rpc = "returned"
    /\ probeErr' = result
    /\ IF result # <<>>
       THEN pc' = "exited" /\ exitCode' = 1 /\ qi' = qi
       ELSE pc' = "info_loop" /\ qi' = 1 /\ exitCode' = exitCode
    /\ Collect
    /\ UNCHANGED <<variant, adbOut, listVars, selVars, memoryFlag, issued, repVars>>

\* the kind of output a property query answers with; the manufacturer's
\* name matters to part_000 only
QueryKind(v, property) ==
    CASE property = "/proc/meminfo" -> "meminfo"
      [] property = "ro.product.manufacturer" /\ v = "probe" -> "manufacturer"
      [] OTHER -> "query"

\* Entry giving every entry the first label
EntryFirstLabel(label, value) == [Property |-> "Model", Value |-> value]

\* a Device Info Entry
Entry(label, value) == [Property |-> label, Value |-> value]

\* getDeviceInfo: the next call of the Command Runner; the first one starts
\* a new list
InfoQuery ==
    /\ pc = "info_loop"
    /\ qi <= Len(Queries(variant))
    /\ StartCall(runnerOf(variant), QueryKind(variant, Queries(variant)[qi][2]), selected)
    /\ issued' = Append(issued, [kind |-> "query", dev |-> selected,
                                cmd |-> Queries(variant)[qi][2]])
    /\ pc' = "info_wait"
    /\ info' = IF qi = 1 THEN <<>> ELSE info
    /\ UNCHANGED <<variant, adbOut, listVars, selVars, exitCode, memoryFlag, qi, probeErr,
                   held, usedKB, shown>>

\* nextQuery asking again after a failed query
nextQueryRetry(v, q, r) ==
    IF r \in {NA, TimedOut} THEN q
    ELSE IF Queries(v)[q][3] = "check" /\ ToLower(r) # Amazon THEN Len(Queries(v)) + 1
    ELSE q + 1

\* the number of the query that follows query q, whose result is r
nextQuery(v, q, r) ==
    IF Queries(v)[q][3] = "check" /\ ToLower(r) # Amazon THEN Len(Queries(v)) + 1
    ELSE q + 1

\* the call returns; part_000 asks for the Fire OS properties only when the
\* manufacturer check answers "amazon"
InfoReturn ==
    /\ pc = "info_wait"
    /\ rpc = "returned"
    /\ LET label == Queries(variant)[qi][1]
           post  == Queries(variant)[qi][3]
           mem   == parseMemInfo(result)
       IN  /\ qi' = nextQuery(variant, qi, result)
           /\ IF post = "parseMemInfo" /\ mem.panic
              THEN pc' = "panicked" /\ exitCode' = 2  \* index out of range
              ELSE pc' = "info_loop" /\ exitCode' = exitCode
           /\ info' =
                CASE post = "raw" -> Append(info, Entry(label, result))
                  [] post = "mapFireOSModel" ->
                        Append(info, Entry(label, mapFireOSModel(result)))
                  [] post = "mapCPUABI" -> Append(info, Entry(label, mapCPUABI(result)))
                  [] post = "parseStorageInfo" ->
                        Append(info, Entry(label, parseStorageInfo(result)))
                  [] post = "parseMemInfo" /\ ~mem.panic ->
                        Append(info, Entry(label, mem.text))
                  [] post = "parseCPUInfo" ->
                        Append(info, Entry(label, parseCPUInfo(held, result)))
                  [] post = "fireOS" ->
                        info \o <<Entry(Queries(variant)[qi - 1][1], held),
                                  Entry(label, result)>>
                  [] OTHER -> info
           /\ held' = IF post = "hold" THEN result ELSE <<>>
           /\ usedKB' = IF post = "parseMemInfo" /\ ~mem.panic THEN <<mem.usedKB>>
                        ELSE usedKB
    /\ Collect
    /\ UNCHANGED <<variant, adbOut, listVars, selVars, memoryFlag, issued, probeErr, shown>>

\* formatOutput of main.go and adbctl.go: the groups and their properties
GroupNames == {"Device", "Hardware", "Display", "Other"}

Groups(v, g) ==
    CASE g = "Device" ->
            <<"Model", "Manufacturer", "Android Version", "API Level", "Build Number",
              "Fire OS Version", "Fire OS Build Number">>
                \o (IF v = "adbctl" THEN <<"IP Address", "WiFi SSID">> ELSE <<>>)
      [] g = "Hardware" -> <<"CPU", "CPU ABI", "Memory", "Storage", "Free Storage">>
      [] g = "Display" -> <<"Screen Resolution", "Screen Density">>
      [] OTHER -> <<"Battery Level">>

\* the width of the label column of part_000 and of the early program
maxLength(list) ==
    IF list = <<>> THEN 0
    ELSE LET i == CHOOSE i \in 1..Len(list) :
                      \A j \in 1..Len(list) :
                          Len(list[j].Property) <= Len(list[i].Property)
         IN  Len(list[i].Property)

\* the line of an entry: "%-3s %-20s : " and the value, icons switched off
GroupedLine(item) ==
    [icon |-> "  ", width |-> 20, label |-> item.Property, sep |-> " : ",
     value |-> item.Value]

\* "%-*s : %s\n"
ListLine(width, item) ==
    [width |-> width, label |-> item.Property, sep |-> " : ", value |-> item.Value]

\* the lines of one group: the heading, the line of the first entry of each
\* property of the group that the list holds, a blank line
GroupLines(v, g, list) ==
    LET props == Groups(v, g)
        found == {k \in 1..Len(props) :
                      \E i \in 1..Len(list) : list[i].Property = props[k]}
        first(k) == CHOOSE i \in 1..Len(list) :
                        /\ list[i].Property = props[k]
                        /\ \A h \in 1..(i - 1) : list[h].Property # props[k]
    IN  << [group |-> g] >>
            \o [j \in 1..Cardinality(found) |-> GroupedLine(list[first(Nth(found, j))])]
            \o << [blank |-> TRUE] >>

RECURSIVE AllGroupLines(_, _, _)
AllGroupLines(v, order, list) ==
    IF order = <<>> THEN <<>>
    ELSE GroupLines(v, Head(order), list) \o AllGroupLines(v, Tail(order), list)

\* formatOutput: the lines of the report. order is the order in which the
\* range over the map of groups yields its keys in main.go and adbctl.go,
\* which Go leaves unspecified; part_000 and the early program write one
\* line per entry of the list
formatOutput(v, list, order) ==
    IF v \in {"main", "adbctl"}
    THEN << [title |-> "Device Information"], [rule |-> 70], [blank |-> TRUE] >>
            \o AllGroupLines(v, order, list)
    ELSE << [title |-> "Device Information:"], [rule |-> 20] >>
            \o [i \in 1..Len(list) |-> ListLine(maxLength(list), list[i])]

\* return info: the report is printed; part_000 and the early program end,
\* main.go and adbctl.go show the menu again
InfoDone ==
    /\ pc = "info_loop"
    /\ qi > Len(Queries(variant))
    /\ IF variant \in {"probe", "v1"}
       THEN pc' = "done" /\ exitCode' = 0
       ELSE pc' = "menu" /\ exitCode' = exitCode
    /\ qi' = 0
    /\ info' = <<>>
    /\ \E order \in Orders(GroupNames) : shown' = formatOutput(variant, info, order)
    /\ UNCHANGED <<variant, adbOut, listVars, selVars, runVars, memoryFlag, issued,
                   probeErr, held, usedKB>>

\* getDetailedMemoryInfo: its one call of runAdbCommand
MemQuery ==
    /\ pc = "mem_call"
    /\ StartCall("runAdbCommand", "meminfo", selected)
    /\ issued' = Append(issued, [kind |-> "query", dev |-> selected,
                                cmd |-> "/proc/meminfo"])
    /\ pc' = "mem_wait"
    /\ UNCHANGED <<variant, adbOut, listVars, selVars, exitCode, memoryFlag, qi, probeErr,
                   repVars>>

\* the memory report is printed; with -memory main returns
MemReturn ==
    /\ pc = "mem_wait"
    /\ rpc = "returned"
    /\ IF memoryFlag THEN pc' = "done" /\ exitCode' = 0
                     ELSE pc' = "menu" /\ exitCode' = exitCode
    /\ usedKB' = <<usedMem(result)>>
    /\ Collect
    /\ UNCHANGED <<variant, adbOut, listVars, selVars, memoryFlag, issued, qi, probeErr,
                   info, held, shown>>

\* one round of showInformationMenu: the menu, a new bufio.Reader, the
\* prompt, the line read and the switch
MenuRead ==
    /\ pc = "menu"
    /\ \E o \in ReadString(<<>>, stdin) :
       LET raw == o.raw
           in  == TrimSpace(raw)
       IN  /\ stdin' = o.rest
           /\ rbuf' = o.buf
           /\ consumed' = IF o.got THEN Append(consumed, raw) ELSE consumed
           /\ input' = in
           /\ pc' = CASE in = <<"1">> -> "info_loop"
                      [] in = <<"2">> -> "mem_call"
                      [] in = <<"3">> -> "reboot"
                      [] in = <<"4">> -> "start_read"
                      [] in = <<"5">> -> "packages"
                      [] in = <<"6">> -> "done"
                      [] OTHER -> "menu"
           /\ qi' = IF in = <<"1">> THEN 1 ELSE qi
           /\ exitCode' = IF in = <<"6">> THEN 0 ELSE exitCode
    /\ UNCHANGED <<variant, adbOut, listVars, prompts, errs, selected, runVars,
                   memoryFlag, issued, probeErr, repVars>>

\* rebootDevice and listInstalledApps: exec.Command without a context
ExecCommand ==
    /\ pc \in {"reboot", "packages"}
    /\ StartCall("exec", pc, selected)
    /\ issued' = Append(issued, [kind |-> pc, dev |-> selected, cmd |-> pc])
    /\ pc' = "exec_wait"
    /\ UNCHANGED <<variant, adbOut, listVars, selVars, exitCode, memoryFlag, qi, probeErr,
                   repVars>>

\* startApplication: the package name is read through a new bufio.Reader,
\* then the launch command runs
StartApplication ==
    /\ pc = "start_read"
    /\ \E o \in ReadString(<<>>, stdin) :
          /\ stdin' = o.rest
          /\ rbuf' = o.buf
          /\ consumed' = IF o.got THEN Append(consumed, o.raw) ELSE consumed
    /\ StartCall("exec", "start", selected)
    /\ issued' = Append(issued, [kind |-> "start", dev |-> selected, cmd |-> "monkey"])
    /\ pc' = "exec_wait"
    /\ UNCHANGED <<variant, adbOut, listVars, input, prompts, errs, selected, exitCode,
                   memoryFlag, qi, probeErr, repVars>>

\* the command is over, whatever its outcome: back to the menu
ExecReturn ==
    /\ pc = "exec_wait"
    /\ rpc = "returned"
    /\ pc' = "menu"
    /\ Collect
    /\ UNCHANGED <<variant, adbOut, listVars, selVars, exitCode, mainVars>>

\* the console lines of a whole run
MenuLines == {Dec(n) : n \in 1..6} \cup {<<"x">>}

\* listings of no, one and two devices, and of an offline device only
MainTexts ==
    {JoinLines(<<Header>> \o [n \in 1..k |-> DeviceLine(n)] \o << <<>> >>) : k \in 0..2}
        \cup {JoinLines(<<Header, <<"9", "Z", "\t">> \o Offline, <<>>>>)}

Init ==
    /\ variant \in Programs
    /\ pc = "start"
    /\ adbOut \in (IF variant = "v1" THEN {<<>>} ELSE MainTexts)
    /\ lines = <<>>
    /\ li = 0
    /\ devices = <<>>
    /\ stdin \in (IF variant = "v1" THEN {<<>>} ELSE SeqsUpTo(MenuLines, MaxMenu))
    /\ consumed = <<>>
    /\ input = <<>>
    /\ prompts = 0
    /\ errs = 0
    /\ selected = <<>>
    /\ exitCode = -1
    /\ RunnerIdle
    /\ memoryFlag \in (IF variant \in {"main", "adbctl"} THEN BOOLEAN ELSE {FALSE})
    /\ issued = <<>>
    /\ qi = 0
    /\ probeErr = Unset
    /\ rbuf = <<>>
    /\ faults = 0
    /\ ReportIdle

Next ==
    \/ MainStart \/ ListRun \/ ListStep \/ ListReturn \/ MainSelect
    \/ SelectEntry \/ SelectPrompt \/ SelectRead \/ MainAfterSelect
    \/ ProbeReturn \/ InfoQuery \/ InfoReturn \/ InfoDone \/ MemQuery \/ MemReturn
    \/ MenuRead \/ ExecCommand \/ StartApplication \/ ExecReturn
    \/ ChildWrite \/ ChildExit \/ TimerFire \/ WaitReturn \/ RunReturn

Spec == Init /\ [][Next]_vars

\* ------------------------------------------- the listing, read as a text
IsBlank(l) == \A p \in 1..Len(l) : l[p] \in WS

EndsInOffline(l) ==
    /\ Len(l) >= 7
    /\ \A j \in 1..7 : l[Len(l) - 7 + j] = Offline[j]

\* the first whitespace-delimited token of a non-blank line
FirstToken(l) ==
    LET from == CHOOSE p \in 1..Len(l) :
                    l[p] \notin WS /\ \A q \in 1..(p - 1) : l[q] \in WS
        to   == CHOOSE p \in from..Len(l) :
                    /\ \A q \in from..p : l[q] \notin WS
                    /\ (p = Len(l) \/ l[p + 1] \in WS)
    IN  SubSeq(l, from, to)

\* the numbers of the lines after the header that name a usable device
Usable(t) ==
    {k \in 2..NumLines(t) : ~IsBlank(LineAt(t, k)) /\ ~EndsInOffline(LineAt(t, k))}

ExpectedIds(t) ==
    [j \in 1..Cardinality(Usable(t)) |-> FirstToken(LineAt(t, Nth(Usable(t), j)))]

ExpectedLines(t) ==
    [j \in 1..Cardinality(Usable(t)) |-> LineAt(t, Nth(Usable(t), j))]

\* ------------------------------------------------ getDeviceInfo by itself
\* the listing of a run with one attached device
OneDevice == JoinLines(<<Header, DeviceLine(1), <<>>>>)

\* the state in which getDeviceInfo is entered: one device was listed and
\* selected; main.go and adbctl.go have read the menu choice 1, part_000 has
\* probed the device, the early program has done nothing yet
InitInfo ==
    /\ variant \in Programs
    /\ pc = "info_loop"
    /\ adbOut = IF variant = "v1" THEN <<>> ELSE OneDevice
    /\ lines = <<>>
    /\ li = 0
    /\ devices = IF variant = "v1" THEN <<>> ELSE getConnectedDevices(variant, OneDevice)
    /\ stdin = <<>>
    /\ consumed = IF variant \in {"main", "adbctl"} THEN <<Dec(1)>> ELSE <<>>
    /\ input = IF variant \in {"main", "adbctl"} THEN Dec(1) ELSE <<>>
    /\ prompts = 0
    /\ errs = 0
    /\ selected = IF variant = "v1" THEN <<>> ELSE FirstToken(DeviceLine(1))
    /\ exitCode = -1
    /\ RunnerIdle
    /\ memoryFlag = FALSE
    /\ issued = CASE variant = "v1" -> <<>>
                  [] variant = "probe" ->
                        <<[kind |-> "list", dev |-> <<>>, cmd |-> "devices"],
                          [kind |-> "probe", dev |-> FirstToken(DeviceLine(1)),
                           cmd |-> "echo connected"]>>
                  [] OTHER -> <<[kind |-> "list", dev |-> <<>>, cmd |-> "devices"]>>
    /\ qi = 1
    /\ probeErr = IF variant = "probe" THEN <<>> ELSE Unset
    /\ rbuf = <<>>
    /\ faults = 0
    /\ ReportIdle

NextInfo ==
    \/ InfoQuery \/ InfoReturn \/ InfoDone
    \/ ChildWrite \/ ChildExit \/ TimerFire \/ WaitReturn \/ RunReturn

SpecInfo == InitInfo /\ [][NextInfo]_vars

\* ------------------------------------------- the memory parsers by themselves
\* the numbers of kB the texts give, a total smaller than the available
\* memory included
MemValues == {0, 524288, 1048576, 2097152}

\* a line of /proc/meminfo: the key, padding, the number and the unit
MemInfoLine(key, pad, n) ==
    key \o [p \in 1..pad |-> " "] \o Dec(n) \o <<" ", "k", "B">>

\* lines of /proc/meminfo other than MemTotal and MemAvailable
OtherMemLines ==
    { MemInfoLine(MemFreeKey, 1, 262144),
      MemInfoLine(<<"B", "u", "f", "f", "e", "r", "s", ":">>, 3, 1024),
      MemInfoLine(<<"S", "w", "a", "p", "T", "o", "t", "a", "l", ":">>, 1, 0) }

\* /proc/meminfo-style texts: one MemTotal line, one MemAvailable line and
\* any of the other lines, in any order
MemTexts ==
    UNION { { JoinLines(o) :
                o \in Orders({MemInfoLine(MemTotalKey, 8, t),
                              MemInfoLine(MemAvailableKey, 1, a)} \cup O) } :
            t \in MemValues, a \in MemValues, O \in SUBSET OtherMemLines }

\* runAdbCommand has returned the text of /proc/meminfo
InitMem ==
    /\ variant \in {"main", "adbctl"}
    /\ pc = "mem_text"
    /\ adbOut = OneDevice
    /\ lines = <<>>
    /\ li = 0
    /\ devices = getConnectedDevices(variant, OneDevice)
    /\ stdin = <<>>
    /\ consumed = <<>>
    /\ input = <<>>
    /\ prompts = 0
    /\ errs = 0
    /\ selected = FirstToken(DeviceLine(1))
    /\ exitCode = -1
    /\ call = [fn |-> "runAdbCommand", kind |-> "meminfo",
               dev |-> FirstToken(DeviceLine(1))]
    /\ rpc = "returned"
    /\ child = "exited"
    /\ status = 0
    /\ outbuf = <<>>
    /\ ctxErr = "Canceled"
    /\ timer = "stopped"
    /\ werr = "nil"
    /\ result \in MemTexts
    /\ captured = result
    /\ spawned = 1
    /\ memoryFlag = FALSE
    /\ issued = <<>>
    /\ qi = 0
    /\ probeErr = Unset
    /\ rbuf = <<>>
    /\ faults = 0
    /\ ReportIdle

\* parseMemInfo is applied to the text
ApplyParseMemInfo ==
    /\ pc = "mem_text"
    /\ LET mem == parseMemInfo(result)
       IN  /\ pc' = IF mem.panic THEN "panicked" ELSE "mem_parsed"
           /\ exitCode' = IF mem.panic THEN 2 ELSE exitCode
           /\ usedKB' = IF mem.panic THEN usedKB ELSE <<mem.usedKB>>
           /\ info' = IF mem.panic THEN info ELSE <<Entry("Memory", mem.text)>>
    /\ UNCHANGED <<variant, adbOut, listVars, selVars, runVars, memoryFlag, issued, qi,
                   probeErr, held, shown>>

\* the loop and the subtraction of getDetailedMemoryInfo are applied to it
ApplyDetailedMemory ==
    /\ pc = "mem_text"
    /\ pc' = "mem_detailed"
    /\ usedKB' = <<usedMem(result)>>
    /\ UNCHANGED <<variant, adbOut, listVars, selVars, runVars, exitCode, memoryFlag,
                   issued, qi, probeErr, info, held, shown>>

NextMem == ApplyParseMemInfo \/ ApplyDetailedMemory

SpecMem == InitMem /\ [][NextMem]_vars

\* --------------------------------------------------- formatOutput by itself
\* labels of the groups of main.go and adbctl.go, and one that no group holds
FormatLabels == {"Model", "Manufacturer", "CPU", "Battery Level", "Serial"}

\* lists of up to three entries with distinct labels; the first value may be
\* the not-available text
FormatLists ==
    UNION { { [i \in 1..Len(o) |-> Entry(o[i], IF i = 1 THEN first ELSE <<"v">>)] :
                o \in Orders(S), first \in {<<"v">>, NA} } :
            S \in {T \in SUBSET FormatLabels : Cardinality(T) <= 3} }

\* a list of entries has been built
InitFormat ==
    /\ variant \in Programs
    /\ pc = "fmt_list"
    /\ adbOut = <<>>
    /\ lines = <<>>
    /\ li = 0
    /\ devices = <<>>
    /\ stdin = <<>>
    /\ consumed = <<>>
    /\ input = <<>>
    /\ prompts = 0
    /\ errs = 0
    /\ selected = <<>>
    /\ exitCode = -1
    /\ RunnerIdle
    /\ memoryFlag = FALSE
    /\ issued = <<>>
    /\ qi = 0
    /\ probeErr = Unset
    /\ rbuf = <<>>
    /\ faults = 0
    /\ info \in FormatLists
    /\ held = <<>>
    /\ usedKB = <<>>
    /\ shown = <<>>

\* fmt.Print(formatOutput(info))
ApplyFormatOutput ==
    /\ pc = "fmt_list"
    /\ pc' = "fmt_shown"
    /\ \E order \in Orders(GroupNames) : shown' = formatOutput(variant, info, order)
    /\ UNCHANGED <<variant, adbOut, listVars, selVars, runVars, exitCode, memoryFlag,
                   issued, qi, probeErr, info, held, usedKB>>

NextFormat == ApplyFormatOutput

SpecFormat == InitFormat /\ [][NextFormat]_vars

\* ------------------------------------------- main.go and adbctl.go by flag
\* console lines that select the second device, ask for the memory report,
\* leave the menu, or do none of these
FlagLines == {Dec(2), Dec(6), <<"x">>}

\* main.go and adbctl.go started with or without -memory
InitFlag ==
    /\ variant \in {"main", "adbctl"}
    /\ pc = "start"
    /\ adbOut \in MainTexts
    /\ lines = <<>>
    /\ li = 0
    /\ devices = <<>>
    /\ stdin \in SeqsUpTo(FlagLines, MaxMenu)
    /\ consumed = <<>>
    /\ input = <<>>
    /\ prompts = 0
    /\ errs = 0
    /\ selected = <<>>
    /\ exitCode = -1
    /\ RunnerIdle
    /\ memoryFlag \in BOOLEAN
    /\ issued = <<>>
    /\ qi = 0
    /\ probeErr = Unset
    /\ rbuf = <<>>
    /\ faults = 0
    /\ ReportIdle

NextFlag ==
    \/ MainStart \/ ListRun \/ ListStep \/ ListReturn \/ MainSelect
    \/ SelectEntry \/ SelectPrompt \/ SelectRead \/ MainAfterSelect
    \/ MemQuery \/ MemReturn \/ MenuRead
    \/ ChildWrite \/ ChildExit \/ TimerFire \/ WaitReturn \/ RunReturn

\* the steps of NextFlag other than the one that takes the memory report
StepsBeforeReport ==
    \/ MainStart \/ ListRun \/ ListStep \/ ListReturn \/ MainSelect
    \/ SelectEntry \/ SelectPrompt \/ SelectRead \/ MainAfterSelect
    \/ MemQuery \/ MenuRead
    \/ ChildWrite \/ ChildExit \/ TimerFire \/ WaitReturn \/ RunReturn

\* getDetailedMemoryInfo goes on once its call of the Command Runner is
\* over: the step of MemReturn, whatever the numbers of the report
ReportTaken ==
    /\ pc = "mem_wait"
    /\ rpc = "returned"
    /\ pc' = (IF memoryFlag THEN "done" ELSE "menu")
    /\ exitCode' \in {0, exitCode}
    /\ usedKB' \in {<<t - a>> : t \in MemValues, a \in MemValues}
    /\ Collect
    /\ UNCHANGED <<variant, adbOut, listVars, selVars, memoryFlag, issued, qi, probeErr,
                   info, held, shown>>

\* the program is sequential and every step it can take is taken; a child
\* that runs exits or is killed at the deadline
SpecFlag ==
    InitFlag /\ [][NextFlag]_vars /\ WF_vars(StepsBeforeReport) /\ WF_vars(ReportTaken)

\* ------------------------------------------------------------- claims
\* C1 (as stated): getConnectedDevices returns exactly the first
\* whitespace-delimited token of each non-blank line after the header that
\* does not end in "offline", one per such line, in input order.
C1_Original == pc = "list_done" => devices = ExpectedIds(adbOut)

\* C1 (amended): main.go and part_000 return those tokens; adbctl.go returns
\* the whole text of each such line, in input order, and the first field of
\* the j-th returned line is the j-th token.
C1_ListingResult ==
    pc = "list_done" =>
        /\ variant # "adbctl" => devices = ExpectedIds(adbOut)
        /\ variant = "adbctl" =>
              /\ devices = ExpectedLines(adbOut)
              /\ Len(devices) = Len(ExpectedIds(adbOut))
              /\ \A j \in 1..Len(devices) :
                    Fields(devices[j])[1] = ExpectedIds(adbOut)[j]

\* a listing with a usable line, an offline line and a trailing blank line
\* has been parsed
C1_Witness ==
    /\ pc = "list_done"
    /\ variant = "adbctl"
    /\ Len(devices) = 1
    /\ NumLines(adbOut) = 4
    /\ EndsInOffline(LineAt(adbOut, 2))
    /\ Len(Fields(LineAt(adbOut, 3))) > 1
    /\ LineAt(adbOut, 4) = <<>>

\* C2: no entry of the result comes from a line ending in "offline": the
\* loop appends an entry only while it stands on a line that does not end
\* in "offline", whatever the position of the line.
C2_NoOfflineEntry ==
    [][(pc = "list_loop" /\ Len(devices') > Len(devices))
          => ~EndsInOffline(lines[li])]_vars

\* the loop has passed an offline line standing first, in the middle or last
\* without appending anything
C2_Witness ==
    /\ pc = "list_loop"
    /\ li = 5
    /\ EndsInOffline(lines[2])
    /\ EndsInOffline(lines[3])
    /\ EndsInOffline(lines[4])
    /\ devices = <<>>

\* a decimal numeral: digits and nothing else
IsNumeral(s) == s # <<>> /\ \A p \in 1..Len(s) : IsDigit(s[p])

RECURSIVE Pow10(_)
Pow10(k) == IF k = 0 THEN 1 ELSE 10 * Pow10(k - 1)

RECURSIVE SumDigits(_, _)
\* the number a numeral denotes: the sum of its digits times their powers
SumDigits(s, p) ==
    IF p > Len(s) THEN 0
    ELSE DigitVal(s[p]) * Pow10(Len(s) - p) + SumDigits(s, p + 1)

\* the line is a 1-based integer in 1..K
NamesDevice(s, K) == IsNumeral(s) /\ SumDigits(s, 1) \in 1..K

\* C3: with K > 1 devices selectDevice returns only when the line just read
\* is a 1-based integer in 1..K; every other line gives the error message
\* and another prompt.
C3_OnlyIntegerInRange ==
    (Len(devices) > 1 /\ prompts > 0) =>
        /\ pc = "selected" => NamesDevice(input, Len(devices))
        /\ pc = "select_prompt" =>
              (~NamesDevice(input, Len(devices)) /\ errs = prompts)

\* the consumed lines before the first one that is an integer in 1..K
FirstValid(cs, K) ==
    CHOOSE j \in 1..Len(cs) :
        /\ NamesDevice(TrimSpace(cs[j]), K)
        /\ \A i \in 1..(j - 1) : ~NamesDevice(TrimSpace(cs[i]), K)

\* C4: with K > 1 devices selectDevice prints one prompt per line it reads
\* and returns the device at the position named by the first valid line;
\* "abc", "0", "K+1", "2" gives the second device after four prompts.
C4_FirstValidLine ==
    (Len(devices) > 1 /\ pc = "selected") =>
        /\ prompts = Len(consumed)
        /\ \E j \in 1..Len(consumed) : NamesDevice(TrimSpace(consumed[j]), Len(devices))
        /\ selected = ExpectedIds(adbOut)[
               SumDigits(TrimSpace(consumed[FirstValid(consumed, Len(devices))]), 1)]
        /\ consumed = Scenario(Len(devices)) =>
               (prompts = 4 /\ selected = ExpectedIds(adbOut)[2])

\* the part of C4 the code keeps: the literal sequence of the claim
C4_LiteralSequence ==
    (Len(devices) > 1 /\ pc = "selected") =>
        /\ prompts = Len(consumed)
        /\ consumed = Scenario(Len(devices)) =>
               (prompts = 4 /\ selected = ExpectedIds(adbOut)[2])

\* C6: with exactly one device selectDevice returns its identifier without
\* printing a prompt and without reading from the console: the input stream
\* is left as it was.
C6_SingleDeviceNoIO ==
    [][(pc = "select_call" /\ Len(devices) = 1) =>
          /\ pc' = "selected"
          /\ selected' = ExpectedIds(adbOut)[1]
          /\ stdin' = stdin
          /\ consumed' = consumed
          /\ prompts' = prompts]_vars

\* the only device was returned while console input was waiting
C6_Witness ==
    /\ pc = "selected"
    /\ Len(devices) = 1
    /\ selected # <<>>
    /\ stdin # <<>>
    /\ prompts = 0

\* C7: a Command Runner call whose child has not exited when the timeout
\* elapses terminates the child and returns the timed-out sentinel, never
\* partial output and never the not-available sentinel.
C7_TimeoutSentinel ==
    (rpc = "returned" /\ call.fn \in CommandRunners /\ child = "killed")
        => result = TimedOut

\* C8: a Command Runner call whose child cannot be started, or exits with
\* a non-zero status before the deadline, returns "n/a": not a timed-out
\* result and not an error text.
C8_NotAvailable ==
    ( /\ rpc = "returned"
      /\ call.fn \in CommandRunners
      /\ (werr = "start" \/ (child = "exited" /\ status # 0)) )
        => result = NA

\* C9: a Command Runner call whose child exits with status zero before the
\* deadline returns the captured output without leading and trailing
\* whitespace, or "n/a" when nothing is left.
C9_TrimmedOrNotAvailable ==
    ( /\ rpc = "returned"
      /\ call.fn \in CommandRunners
      /\ child = "exited"
      /\ status = 0 )
        => result = (IF IsBlank(captured) THEN NA
                     ELSE SubSeq(captured,
                                 CHOOSE p \in 1..Len(captured) :
                                     /\ captured[p] \notin WS
                                     /\ \A q \in 1..(p - 1) : captured[q] \in WS,
                                 CHOOSE p \in 1..Len(captured) :
                                     /\ captured[p] \notin WS
                                     /\ \A q \in (p + 1)..Len(captured) : captured[q] \in WS))

\* C5: selectDevice called with an empty list never returns: the program
\* ends with a non-zero exit status, no device was selected, nothing was
\* prompted or read, and no bridge command other than the listing is ever
\* issued.
C5_NoDevicesFatal ==
    ( /\ variant \in Variants
      /\ devices = <<>>
      /\ pc \notin {"start", "list_call", "list_loop", "list_done", "select_call"} )
        => /\ pc = "exited"
           /\ exitCode > 0
           /\ selected = <<>>
           /\ prompts = 0
           /\ consumed = <<>>
           /\ rpc = "idle"
           /\ \A i \in 1..Len(issued) : issued[i].kind = "list"

\* the listing named an offline device only, selectDevice was entered with
\* the empty list, and the program has ended
C5_Witness ==
    /\ pc = "exited"
    /\ exitCode = 1
    /\ devices = <<>>
    /\ lines = <<>>
    /\ NumLines(adbOut) > 2
    /\ EndsInOffline(LineAt(adbOut, 2))
    /\ Len(issued) = 1
    /\ stdin # <<>>

\* C10: when the probe of the selected device times out or fails the
\* program exits with a non-zero status and no property query is issued;
\* property queries are issued to a device only after a probe of it has
\* succeeded.
C10_ProbeGatesQueries ==
    /\ probeErr \notin {Unset, <<>>} =>
          /\ pc = "exited"
          /\ exitCode > 0
          /\ \A i \in 1..Len(issued) : issued[i].kind # "query"
    /\ (\E i \in 1..Len(issued) : issued[i].kind = "query" /\ issued[i].dev # <<>>)
          => probeErr = <<>>

\* the part of C10 that holds: in part_000 a failed or timed-out probe ends
\* the program before any query
C10_ProbeVariantOnly ==
    variant = "probe" => C10_ProbeGatesQueries

\* C11: checkDeviceConnectivity returns success when the round-trip command
\* exited with status zero, the timed-out error when the deadline elapsed
\* while the command ran, and the failed error when the command could not be
\* started or exited with a non-zero status by itself; the two diagnostics
\* differ, and a failure the deadline did not cause is never reported as a
\* timeout.
C11_ProbeOutcome ==
    /\ ConnTimedOut # ConnFailed
    /\ (rpc = "returned" /\ call.fn = "checkDeviceConnectivity") =>
          /\ result \in {<<>>, ConnTimedOut, ConnFailed}
          /\ child = "killed" => result = ConnTimedOut
          /\ (werr = "start" \/ (child = "exited" /\ status # 0))
                => result = ConnFailed
          /\ (child = "exited" /\ status = 0 /\ timer # "fired") => result = <<>>

\* the part of C11 the code keeps: success is reported only for a command
\* that exited with status zero, and a command killed at the deadline is
\* reported as timed out
C11_SuccessAndKill ==
    (rpc = "returned" /\ call.fn = "checkDeviceConnectivity") =>
        /\ result = <<>> => (child = "exited" /\ status = 0)
        /\ child = "killed" => result = ConnTimedOut
        /\ result = ConnTimedOut => timer = "fired"

\* the step ends the program with a non-zero exit status
ExitsNonZero == exitCode <= 0 /\ exitCode' > 0

\* selectDevice is entered with no device
NoDevicesStep == pc = "select_call" /\ devices = <<>>

\* the probe has returned an error to main
ProbeFailedStep == pc = "probe_wait" /\ rpc = "returned" /\ result # <<>>

\* C12: the program ends with a non-zero exit status in exactly two
\* situations, no devices attached and the probe failed or timed out, and
\* with status 0 on normal completion; no other failure of an external
\* command, a failure of the listing command included, ends the program.
C12_TwoFatalPaths ==
    [][ /\ ExitsNonZero => (NoDevicesStep \/ ProbeFailedStep)
        /\ (NoDevicesStep \/ ProbeFailedStep) => ExitsNonZero
        /\ pc' = "done" => exitCode' = 0
        /\ pc' = "exited" => exitCode' > 0 ]_vars

\* what the code does: a failure of the listing command and an index out
\* of range in the memory parser end the program too; failed queries,
\* reboots, launches and package listings do not
C12_FatalPathsOfTheCode ==
    [][ /\ ExitsNonZero => (NoDevicesStep \/ ProbeFailedStep \/ pc = "list_call"
                                \/ pc' = "panicked")
        /\ (NoDevicesStep \/ ProbeFailedStep) => ExitsNonZero
        /\ pc' = "done" => exitCode' = 0
        /\ pc' = "exited" => exitCode' > 0 ]_vars

\* a line of /proc/meminfo: a key, a number and the unit
MemLine(l) == Len(Fields(l)) = 3 /\ IsNumeral(Fields(l)[2])

\* the query whose call has just returned failed, timed out, returned
\* nothing, or returned text that is not in the format its entry expects
QueryAffected ==
    \/ werr # "nil"
    \/ IsBlank(captured)
    \/ /\ Queries(variant)[qi][3] = "parseMemInfo"
       /\ \E k \in 1..NumLines(captured) : ~MemLine(LineAt(captured, k))

\* getDeviceInfo takes the result of a query
TakesResult == pc = "info_wait" /\ rpc = "returned"

\* C13: when a property query fails, times out, returns nothing or returns
\* text that is not in the expected format, getDeviceInfo does not crash
\* and the value of the affected entry is "n/a".
C13_AffectedEntryNotAvailable ==
    [][ TakesResult =>
          /\ pc' # "panicked"
          /\ (QueryAffected /\ Queries(variant)[qi][3] = "hold") => held' = NA
          /\ (QueryAffected /\ Len(info') > Len(info))
                => info'[Len(info')].Value = NA
          /\ (held = NA /\ Len(info') > Len(info))
                => info'[Len(info) + 1].Value = NA ]_vars

\* the part of C13 the code keeps: in main.go and adbctl.go an entry that is
\* the plain result of a query that failed or timed out is "n/a"
C13_PlainEntryOfFailedQuery ==
    [][ ( /\ TakesResult
          /\ variant \in {"main", "adbctl"}
          /\ werr # "nil"
          /\ Queries(variant)[qi][3] = "raw" )
            => info' = Append(info, Entry(Queries(variant)[qi][1], NA)) ]_vars

\* C14 (as stated): each Command Runner call spawns exactly one child
\* process, whatever its outcome, a start failure included.
C14_ExactlyOneChild ==
    (rpc = "returned" /\ call.fn \in CommandRunners) => spawned = 1

\* C14 (amended): each Command Runner call makes exactly one attempt: it
\* spawns one child, or none when the bridge tool cannot be started; no
\* outcome makes the call start again, and getDeviceInfo goes on to a later
\* query after every result without issuing anything for the failed one.
C14_OneAttemptPerCall ==
    [][ /\ (rpc' = "returned" /\ call'.fn \in CommandRunners)
              => spawned' = (IF werr' = "start" THEN 0 ELSE 1)
        /\ (rpc # "idle" /\ rpc' # "idle") => (spawned' = spawned /\ call' = call)
        /\ rpc = "waited" => rpc' \in {"waited", "returned"}
        /\ rpc = "returned" => rpc' \in {"returned", "idle"}
        /\ TakesResult => (qi' > qi /\ issued' = issued)
        /\ (pc = "info_loop" /\ pc' = "info_wait")
              => (Len(issued') = Len(issued) + 1 /\ qi' = qi) ]_vars

\* getDeviceInfo has gone on to its third query after a query that could
\* not be started, and that query's child is running
C14_Witness ==
    /\ pc = "info_wait"
    /\ qi = 3
    /\ Len(info) = 2
    /\ NA \in {info[i].Value : i \in 1..Len(info)}
    /\ faults = 1
    /\ child = "running"
    /\ spawned = 1

\* the property queries issued so far, in the order of issue
QueriesIssued ==
    LET Q == {i \in 1..Len(issued) : issued[i].kind = "query"}
    IN  [j \in 1..Cardinality(Q) |-> issued[Nth(Q, j)].cmd]

\* the labels asked for by the first k queries of the program's list, each
\* once, in the order of their first query
LabelsAsked(v, k) ==
    LET F == {i \in 1..k : /\ Queries(v)[i][1] # ""
                           /\ \A h \in 1..(i - 1) : Queries(v)[h][1] # Queries(v)[i][1]}
    IN  [j \in 1..Cardinality(F) |-> Queries(v)[Nth(F, j)][1]]

\* getDeviceInfo is about to return info
InfoReturned == pc = "info_loop" /\ qi > Len(Queries(variant))

\* C15: the list getDeviceInfo returns has exactly one entry per requested
\* property, in the order in which the queries were issued, and no label
\* twice, whatever the outcomes of the queries.
C15_OneEntryPerProperty ==
    InfoReturned =>
        LET k == Len(QueriesIssued)
        IN  /\ k <= Len(Queries(variant))
            /\ \A i \in 1..k : QueriesIssued[i] = Queries(variant)[i][2]
            /\ [i \in 1..Len(info) |-> info[i].Property] = LabelsAsked(variant, k)
            /\ \A i, j \in 1..Len(info) :
                  info[i].Property = info[j].Property => i = j

\* part_000 returns a list whose Fire OS entries follow a query that failed
C15_Witness ==
    /\ InfoReturned
    /\ variant = "probe"
    /\ Len(info) = 15
    /\ info[15].Property = "Fire OS Build Number"
    /\ \E i \in 1..Len(info) : info[i].Value = NA

\* the lines of a text
LinesOf(text) == {Split(text)[k] : k \in 1..Len(Split(text))}

\* one of the lines gives n kB for the key
Gives(L, key, n) == \E pad \in {1, 8} : MemInfoLine(key, pad, n) \in L

\* C16: for a /proc/meminfo-style text giving MemTotal T kB and MemAvailable
\* A kB the used-memory value of both memory parsers is T - A kB exactly,
\* whatever other lines stand in the text and in whatever order; for
\* T = 1048576 and A = 524288 it is 524288.
C16_UsedIsTotalMinusAvailable ==
    pc \in {"mem_parsed", "mem_detailed"} =>
        LET L == LinesOf(result)
        IN  /\ \A t \in MemValues, a \in MemValues :
                  (Gives(L, MemTotalKey, t) /\ Gives(L, MemAvailableKey, a))
                      => usedKB = <<t - a>>
            /\ (Gives(L, MemTotalKey, 1048576) /\ Gives(L, MemAvailableKey, 524288))
                  => usedKB = <<524288>>
            /\ \E t \in MemValues, a \in MemValues :
                  Gives(L, MemTotalKey, t) /\ Gives(L, MemAvailableKey, a)

\* the MemAvailable line stands before the MemTotal line among three other
\* lines, and getDetailedMemoryInfo has computed 524288
C16_Witness ==
    /\ pc = "mem_detailed"
    /\ Len(Split(result)) = 5
    /\ Split(result)[2] = MemInfoLine(MemAvailableKey, 1, 524288)
    /\ Split(result)[4] = MemInfoLine(MemTotalKey, 8, 1048576)
    /\ usedKB = <<524288>>

\* the visible text read again: the label of every line that has the
\* separator " : ", in the order of the lines
VisibleLabels(ls) ==
    LET E == {k \in 1..Len(ls) : "sep" \in DOMAIN ls[k]}
    IN  [j \in 1..Cardinality(E) |-> ls[Nth(E, j)].label]

\* the labels of a list of entries
LabelsOf(list) == [i \in 1..Len(list) |-> list[i].Property]

\* C17: the text formatOutput produces from a list of entries with distinct
\* labels shows every label exactly once and in the order of the list, so
\* that reading the visible text again gives the same labels in the same
\* order on every run.
C17_LabelsRoundTrip ==
    pc = "fmt_shown" => VisibleLabels(shown) = LabelsOf(info)

\* what the code keeps: part_000 and the early program show the labels of
\* the list in its order; main.go and adbctl.go show each label at most once,
\* only labels of the list, and those of one group in the order of the
\* group's table
C17_ListProgramsKeepOrder ==
    pc = "fmt_shown" =>
        /\ variant \in {"probe", "v1"} => VisibleLabels(shown) = LabelsOf(info)
        /\ LET vis == VisibleLabels(shown)
           IN  /\ \A i, j \in 1..Len(vis) : vis[i] = vis[j] => i = j
               /\ \A i \in 1..Len(vis) : \E k \in 1..Len(info) : info[k].Property = vis[i]

\* the positions of showInformationMenu and of the actions it calls
MenuPcs ==
    {"menu", "info_loop", "info_wait", "mem_call", "mem_wait", "reboot", "packages",
     "start_read", "exec_wait"}

\* the program is in the interactive menu
InMenu == variant \in {"main", "adbctl"} /\ ~memoryFlag /\ pc \in MenuPcs

\* the menu prompt has read a line in this step
MenuLineRead == pc = "menu" /\ consumed' # consumed

\* that line, as the switch sees it
MenuChoice == TrimSpace(consumed'[Len(consumed')])

\* the switch of showInformationMenu on the line just read
SwitchOnChoice ==
    MenuLineRead =>
        /\ MenuChoice \notin {Dec(n) : n \in 1..6} => (pc' = "menu" /\ exitCode' = exitCode)
        /\ MenuChoice \in {Dec(n) : n \in 1..5}
              => pc' \in MenuPcs \ {"menu"}
        /\ MenuChoice = Dec(6) => pc' = "done"

\* C18: every console line given to the interactive menu is consumed by
\* exactly one menu prompt, in order: no line is lost and none is read by
\* anything else; a line other than 1 to 6 shows the menu again without
\* ending the program, a line 1 to 5 runs its action, after which the menu
\* is shown again whatever the outcome, and the loop ends only on the line 6.
C18_EachLineOneMenuPrompt ==
    [][ InMenu =>
          /\ consumed' \o rbuf' \o stdin' = consumed \o rbuf \o stdin
          /\ consumed' # consumed => pc = "menu"
          /\ SwitchOnChoice
          /\ pc' \notin MenuPcs => (MenuLineRead /\ MenuChoice = Dec(6)) ]_vars

\* what the code keeps: the switch; the loop ends only on the line 6 or when
\* the memory parser of action 1 panics; a line is read by the menu prompt
\* or by the prompt of startApplication, one per prompt, and no line is read
\* twice
C18_SwitchOfTheCode ==
    [][ InMenu =>
          /\ consumed' # consumed =>
                /\ pc \in {"menu", "start_read"}
                /\ Len(consumed') = Len(consumed) + 1
                /\ \E k \in 1..Len(stdin) :
                      /\ consumed' = Append(consumed, stdin[1])
                      /\ stdin' = SubSeq(stdin, k + 1, Len(stdin))
                      /\ rbuf' = SubSeq(stdin, 2, k)
          /\ SwitchOnChoice
          /\ pc' \notin MenuPcs =>
                \/ MenuLineRead /\ MenuChoice = Dec(6)
                \/ pc' = "panicked" ]_vars

\* C19: with the memory flag main.go and adbctl.go print the detailed memory
\* report of the selected device and end with exit status 0 without ever
\* showing the interactive menu; without the flag they enter the interactive
\* menu after the device selection.
C19_MemoryFlagOrMenu ==
    /\ [][ /\ pc = "selected" => pc' = (IF memoryFlag THEN "mem_call" ELSE "menu")
           /\ memoryFlag => pc' # "menu"
           /\ (memoryFlag /\ pc = "mem_call")
                 => (pc' = "mem_wait" /\ call'.kind = "meminfo" /\ call'.dev = selected)
           /\ (memoryFlag /\ pc = "mem_wait" /\ pc' # pc)
                 => /\ pc' = "done"
                    /\ exitCode' = 0
                    /\ usedKB' = <<usedMem(result)>> ]_vars
    /\ (memoryFlag /\ pc = "selected") ~> (pc = "done" /\ exitCode = 0 /\ usedKB # <<>>)
    /\ (~memoryFlag /\ pc = "selected") ~> (pc = "menu")

\* with -memory the second of two devices was selected, its memory report
\* was printed and the program has ended, the line 6 still unread
C19_Witness ==
    /\ pc = "done"
    /\ memoryFlag
    /\ exitCode = 0
    /\ Len(devices) = 2
    /\ selected = ExpectedIds(adbOut)[2]
    /\ usedKB = <<1048576>>
    /\ consumed = <<Dec(2)>>
    /\ rbuf \o stdin = <<Dec(6)>>

\* C20: when a Command Runner call returns, on the success path, the
\* failure path and the timeout path alike, its child process is no longer
\* running and its timeout timer has been released; a child is started only
\* by a call, a call is started only when no other call is in progress, and
\* the caller waits for its child, so at most one child process exists at
\* any time.
C20_ChildAndTimerReleased ==
    /\ [](rpc = "returned" => (child \in {"none", "exited", "killed"}
                              /\ timer \in {"none", "stopped", "fired"}))
    /\ [](rpc = "idle" => (child = "none" /\ timer = "none"))
    /\ [](child = "running" => (rpc = "wait" /\ spawned = 1))
    /\ [](spawned \in {0, 1})
    /\ [][ /\ spawned' > spawned => (rpc = "idle" /\ child = "none" /\ spawned' = 1)
           /\ (child # "running" /\ child' = "running") => spawned' > spawned
           /\ (rpc = "wait" /\ rpc' # "wait") => child \in {"exited", "killed"} ]_vars

\* a query of part_000 has returned on the timeout path: the child was
\* killed and reaped and the timer has fired
C20_Witness ==
    /\ rpc = "returned"
    /\ call.fn = "runAdbCommandWithTimeout"
    /\ child = "killed"
    /\ timer = "fired"
    /\ werr = "killed"
    /\ spawned = 1
    /\ qi > 1

\* the positions of main before selectDevice has returned
BeforeSelection ==
    {"start", "list_call", "list_loop", "list_done", "select_call", "select_prompt",
     "select_read"}

\* the commands issued so far: the listing first and only once, the others
\* after the selection and to the selected device
IssuedInOrder ==
    /\ pc \notin {"start", "list_call"} => issued # <<>>
    /\ \A i \in 1..Len(issued) : (issued[i].kind = "list") <=> (i = 1)
    /\ Len(issued) > 1 => (pc \notin BeforeSelection /\ selected # <<>>)
    /\ \A i \in 2..Len(issued) : issued[i].dev = selected

\* selectDevice returns the identifier of a listed device, a step keeps it,
\* and a command issued after the listing goes to that device
KeepsSelection ==
    /\ selected # <<>> => selected' = selected
    /\ selected' # selected =>
          /\ pc \in {"select_call", "select_read"}
          /\ pc' = "selected"
          /\ selected' \in {ExpectedIds(adbOut)[k] : k \in 1..Len(ExpectedIds(adbOut))}
    /\ Len(issued') > Len(issued) =>
          /\ issued' = Append(issued, issued'[Len(issued')])
          /\ issued # <<>> => /\ rpc = "idle"
                              /\ call'.dev = selected
                              /\ issued'[Len(issued')].dev = call'.dev

\* C21: in every run the listing command is invoked exactly once and before
\* any other bridge command; every later bridge command is issued only after
\* selectDevice has returned and carries exactly the identifier selectDevice
\* returned, which stays the same for the rest of the run.
C21_ListingFirstThenSelectedDevice ==
    /\ []IssuedInOrder
    /\ [][KeepsSelection]_vars

\* what the code keeps: the runs of main.go, adbctl.go and the probing
\* program of part_000 are as C21 says
C21_ProgramsWithSelection ==
    /\ [](variant \in Variants => IssuedInOrder)
    /\ [][(variant \in Variants) => KeepsSelection]_vars

\* the second of two devices was selected and the reboot command was issued
\* to it after the listing
C21_SelectedThenReboot ==
    /\ variant = "adbctl"
    /\ Len(devices) = 2
    /\ selected = ExpectedIds(adbOut)[2]
    /\ Len(issued) = 2
    /\ issued[1].kind = "list"
    /\ issued[2].kind = "reboot"
    /\ issued[2].dev = selected
    /\ child = "running"

\* the report of getDeviceInfo has an entry with this label
HasEntry(label) == \E i \in 1..Len(info) : info[i].Property = label

\* the value of the first entry with this label
ValueOf(label) ==
    info[CHOOSE i \in 1..Len(info) :
            /\ info[i].Property = label
            /\ \A j \in 1..(i - 1) : info[j].Property # label].Value

\* the two Fire OS entries are in the report
FireOSEntries == HasEntry("Fire OS Version") /\ HasEntry("Fire OS Build Number")

\* C22: in the probing program's getDeviceInfo the returned report has the
\* entries "Fire OS Version" and "Fire OS Build Number" if and only if the
\* value of its "Manufacturer" entry equals "amazon" ignoring case, whatever
\* the outcomes of the individual queries
C22_FireOSIffManufacturerEntry ==
    (InfoReturned /\ variant = "probe") =>
        (FireOSEntries <=>
            (HasEntry("Manufacturer") /\ ToLower(ValueOf("Manufacturer")) = Amazon))

\* what the code does: the Fire OS entries follow the answer of the second
\* manufacturer query, made after the thirteen entries are built; both
\* entries come together, and a device that answered "Amazon" to the first
\* query lacks them only when the second query went wrong
C22_FireOSFollowsSecondQuery ==
    /\ [](InfoReturned /\ variant = "probe" =>
            /\ HasEntry("Manufacturer")
            /\ FireOSEntries <=> Len(info) = 15
            /\ ~FireOSEntries <=> Len(info) = 13
            /\ HasEntry("Fire OS Version") <=> HasEntry("Fire OS Build Number")
            /\ (FireOSEntries /\ ToLower(ValueOf("Manufacturer")) # Amazon) =>
                   ValueOf("Manufacturer") \in {NA, TimedOut}
            /\ (~FireOSEntries /\ ToLower(ValueOf("Manufacturer")) = Amazon) =>
                   faults > 0)
    /\ [][(variant = "probe" /\ pc = "info_wait" /\ pc' = "info_loop"
              /\ Queries(variant)[qi][3] = "check") =>
             ((qi' = qi + 1) <=> (ToLower(result) = Amazon))]_vars

\* the first manufacturer query timed out and the second one answered
C22_TimedOutEntryWithFireOS ==
    /\ InfoReturned
    /\ variant = "probe"
    /\ ValueOf("Manufacturer") = TimedOut
    /\ FireOSEntries

\* the first manufacturer query answered and the second one failed
C22_AmazonEntryWithoutFireOS ==
    /\ InfoReturned
    /\ variant = "probe"
    /\ ValueOf("Manufacturer") = AmazonAnswer
    /\ ~FireOSEntries

\* the console lines the run was started with: those read, those the reader
\* holds and those still waiting
Script == consumed \o rbuf \o stdin

\* what the pair getConnectedDevices + selectDevice of a program makes of a
\* listing text and of console lines
PairOutcome(v, text, script) == selectDevice(v, getConnectedDevices(v, text), script)

\* the selection is over, or its loop has asked MaxPrompts times
Settled == pc \in {"selected", "exited"} \/ (pc = "select_prompt" /\ prompts = MaxPrompts)

\* one console line for each choice of a listing of up to MaxLines lines
OneChoice == {<<Dec(n)>> : n \in 0..MaxLines} \cup {<<>>, << <<"a", "b", "c">>, Dec(1) >>}

\* C23: for the same listing text and the same console lines the pair
\* getConnectedDevices + selectDevice of adbctl.go, which keeps whole lines
\* and takes the first token when the device is selected, resolves the same
\* identifier with the same number of prompts and the same exit behaviour
\* as the pair of main.go, which takes the first token when listing. The
\* outcome of the run in progress is the one computed for its program; the
\* listings with offline, blank and indented lines are compared where the
\* run of main.go starts with no device and no console line.
C23_SamePairOutcome ==
    /\ PairOutcome("adbctl", adbOut, Script) = PairOutcome("main", adbOut, Script)
    /\ (variant \in {"main", "adbctl"} /\ Settled) =>
          [id |-> selected, prompts |-> prompts, exit |-> exitCode]
              = PairOutcome(variant, adbOut, Script)
    /\ (variant = "main" /\ pc = "exited" /\ Script = <<>>) =>
          \A t \in Texts, s \in OneChoice :
              PairOutcome("adbctl", t, s) = PairOutcome("main", t, s)

\* adbctl.go has resolved the second of three kept lines, after one refused
\* console line, to the identifier main.go resolves
C23_Witness ==
    /\ variant = "adbctl"
    /\ pc = "selected"
    /\ Len(devices) = 3
    /\ devices[2] = DeviceLine(2)
    /\ selected = FirstToken(DeviceLine(2))
    /\ selected # devices[2]
    /\ prompts = 2
    /\ errs = 1
    /\ exitCode = -1
    /\ PairOutcome("main", adbOut, Script).id = selected

====
